---- MODULE Spec2Model ----
(***************************************************************************)
(* MiniShazam: the catalog store (Database/database.py), the catalog       *)
(* builder and the time-offset voting matcher (orchestrator.py).           *)
(***************************************************************************)
EXTENDS Integers, Sequences, FiniteSets, TLC

(***************************************************************************)
(* Python floats.  The matcher divides and multiplies vote counts as IEEE  *)
(* binary64 numbers and compares the results with == and <, so the model   *)
(* computes them bit for bit.  A positive float is <<e, l1, l2, l3, l4>>:  *)
(* the value 2^e * 1.f, the 52 fraction bits f held in four 13-bit limbs   *)
(* (model-checker integers are 32 bits wide).  Round to nearest, ties to   *)
(* even, as the hardware does.                                             *)
(***************************************************************************)
LimbBase == 2^13

HalfLimb == 2^12

ZeroF == <<0 - 2000, 0, 0, 0, 0>>

\* limbs + 1 with carry; the fifth component is the carry out of the top limb
IncLimbs(l) ==
    LET c4 == IF l[4] + 1 = LimbBase THEN 1 ELSE 0
        c3 == IF l[3] + c4 = LimbBase THEN 1 ELSE 0
        c2 == IF l[2] + c3 = LimbBase THEN 1 ELSE 0
        c1 == IF l[1] + c2 = LimbBase THEN 1 ELSE 0
    IN  << (l[1] + c2) % LimbBase, (l[2] + c3) % LimbBase,
           (l[3] + c4) % LimbBase, (l[4] + 1) % LimbBase, c1 >>

\* the float of exponent e and fraction limbs l, rounded up by one ulp if up
RoundF(e, l, up) ==
    IF ~up THEN <<e, l[1], l[2], l[3], l[4]>>
    ELSE LET i == IncLimbs(l)
         IN  IF i[5] = 1 THEN <<e + 1, 0, 0, 0, 0>>
             ELSE <<e, i[1], i[2], i[3], i[4]>>

RECURSIVE ShiftUp(_, _)
\* the least k >= 0 with a * 2^k >= b
ShiftUp(a, b) == IF a >= b THEN 0 ELSE 1 + ShiftUp(2 * a, b)

RECURSIVE ShiftDown(_, _)
\* the greatest k >= 0 with b * 2^k <= a   (a >= b)
ShiftDown(a, b) == IF 2 * b > a THEN 0 ELSE 1 + ShiftDown(a, 2 * b)

\* a / b for integers a >= 0, b > 0: the binary64 nearest to the quotient
FloatDiv(a, b) ==
    IF a = 0 THEN ZeroF
    ELSE LET up == ShiftUp(a, b)
             dn == IF a >= b THEN ShiftDown(a, b) ELSE 0
             A  == a * 2^up
             B  == b * 2^dn
             r0 == A - B
             l1 == (r0 * LimbBase) \div B
             r1 == (r0 * LimbBase) % B
             l2 == (r1 * LimbBase) \div B
             r2 == (r1 * LimbBase) % B
             l3 == (r2 * LimbBase) \div B
             r3 == (r2 * LimbBase) % B
             l4 == (r3 * LimbBase) \div B
             r4 == (r3 * LimbBase) % B
             up1 == 2 * r4 > B \/ (2 * r4 = B /\ l4 % 2 = 1)
         IN  RoundF(dn - up, <<l1, l2, l3, l4>>, up1)

\* x * y for floats x, y >= 0: the binary64 nearest to the product
FloatMul(x, y) ==
    IF x = ZeroF \/ y = ZeroF THEN ZeroF
    ELSE LET X == <<1, x[2], x[3], x[4], x[5]>>
             Y == <<1, y[2], y[3], y[4], y[5]>>
             \* column sums of the schoolbook product, column k has weight LimbBase^(8-k)
             Col(k) == LET I == {i \in 0..4 : k - i \in 0..4}
                           RECURSIVE Sum(_)
                           Sum(S) == IF S = {} THEN 0
                                     ELSE LET i == CHOOSE j \in S : TRUE
                                          IN  X[i + 1] * Y[k - i + 1] + Sum(S \ {i})
                       IN  Sum(I)
             s8 == Col(8)
             s7 == Col(7) + (s8 \div LimbBase)
             s6 == Col(6) + (s7 \div LimbBase)
             s5 == Col(5) + (s6 \div LimbBase)
             s4 == Col(4) + (s5 \div LimbBase)
             s3 == Col(3) + (s4 \div LimbBase)
             s2 == Col(2) + (s3 \div LimbBase)
             s1 == Col(1) + (s2 \div LimbBase)
             p0 == Col(0) + (s1 \div LimbBase)
             p1 == s1 % LimbBase
             p2 == s2 % LimbBase
             p3 == s3 % LimbBase
             p4 == s4 % LimbBase
             p5 == s5 % LimbBase
             p6 == s6 % LimbBase
             p7 == s7 % LimbBase
             p8 == s8 % LimbBase
             low0 == p6 = 0 /\ p7 = 0 /\ p8 = 0
             e  == x[1] + y[1]
         IN  IF p0 = 1
             THEN \* product in [1, 2): the 52 bits p5..p8 are cut
                  RoundF(e, <<p1, p2, p3, p4>>,
                         p5 > HalfLimb \/ (p5 = HalfLimb /\ ~low0)
                            \/ (p5 = HalfLimb /\ low0 /\ p4 % 2 = 1))
             ELSE \* product in [2, 4): shift right one bit, 53 bits are cut
                  LET m1 == (p1 \div 2) + (p0 % 2) * HalfLimb
                      m2 == (p2 \div 2) + (p1 % 2) * HalfLimb
                      m3 == (p3 \div 2) + (p2 % 2) * HalfLimb
                      m4 == (p4 \div 2) + (p3 % 2) * HalfLimb
                      sticky == ~(p5 = 0 /\ low0)
                  IN  RoundF(e + 1, <<m1, m2, m3, m4>>,
                             p4 % 2 = 1 /\ (sticky \/ m4 % 2 = 1))

\* x < y for floats x, y >= 0
FloatLess(x, y) ==
    \E i \in 1..5 : x[i] < y[i] /\ \A j \in 1..(i - 1) : x[j] = y[j]

(***************************************************************************)
(* State.  The store is the two tables of database.py; the rest are the    *)
(* arguments and locals of identify_from_hashes.                           *)
(***************************************************************************)
VARIABLES
    music,            \* table music: row i is song_id i, [title, fingerprinted]
    fingerprint,      \* table fingerprint in insertion order: [song_id, center, signature]
    snippet_hashes,   \* the query: a list of <<hash_tuple, anchor_time_idx>>
    mpc,              \* where identify_from_hashes stands
    max_track_id,
    song_id,          \* the loop variable of the scan
    offset_votes,     \* the offset histogram of the track scanned last
    score_details,
    best_song_ids,
    matches,          \* the returned list of titles
    db_reads,         \* store reads issued by the running call
    run,              \* 1 for the first call, 2 for its repetition
    first_matches,    \* what the first call returned
    mp3_dir,          \* ./music/mp3: file name -> content
    wav_dir,          \* ./music/wav: file name -> audio
    bpc,              \* where construct_music_database stands
    todo,             \* the files the running loop has still to visit
    title_to_id,
    wav_track_id,     \* track_id of the WAV file in hand
    fingerprint_hashes,
    events,           \* the store calls of the build so far, in order
    audio_data,       \* the signal handed to the spectrogram engine
    epc,              \* where the audio pipeline stands
    power_matrix,     \* the grid: a list of columns, row i holding frequency index i - 1
    peak_list,        \* peaks: the constellation of the grid
    hashes,           \* the hash stream as emitted
    unique_hashes,    \* the hash list returned
    last_call,        \* the latest call a client made on database.py, with its result
    batches,          \* song_id -> the hash_entries lists stored under it, in order
    argv,             \* the command line handed to run_cli
    cpc,              \* where run_cli stands
    command,          \* args.command, "None" when there is none
    connection,       \* the database connection of run_cli
    outcome,          \* how the call run_cli dispatched to ended
    cli_exit,         \* how run_cli ended: returned or raised, and the exit code
    cancel_requested, \* the caller of a build or a match has asked for it to stop
    is_recording,     \* SASPGUI.is_recording
    record_button,    \* state of the record button: "normal" or "disabled"
    stop_button,      \* state of the stop button
    thread_pc,        \* where each _record_audio thread started so far stands
    ticks,            \* the passes each thread has made through its waiting loop
    window,           \* "open" until on_close destroys it
    db_connection     \* the connection the window opened, shared by the threads

dbVars == <<music, fingerprint>>

matchVars == <<snippet_hashes, mpc, max_track_id, song_id, offset_votes,
               score_details, best_song_ids, matches, db_reads, run, first_matches>>

buildVars == <<mp3_dir, wav_dir, bpc, todo, title_to_id, wav_track_id,
               fingerprint_hashes, events>>

engineVars == <<audio_data, epc, power_matrix, peak_list, hashes, unique_hashes>>

storeVars == <<last_call, batches>>

cliVars == <<argv, cpc, command, connection, outcome, cli_exit>>

guiVars == <<is_recording, record_button, stop_button, thread_pc, ticks, window,
             db_connection>>

appVars == <<storeVars, cliVars, cancel_requested, guiVars>>

vars == <<dbVars, matchVars, buildVars, engineVars, appVars>>

None == 0 - 1

(***************************************************************************)
(* orchestrator.py: the thresholds                                         *)
(***************************************************************************)
MIN_ABSOLUTE_VOTES == 5

MIN_SNIPPET_VOTE_RATIO == FloatDiv(6, 1000)

MIN_STORED_VOTE_RATIO == FloatDiv(4, 1000)

(***************************************************************************)
(* database.py: the reads the matcher issues                               *)
(***************************************************************************)
\* SELECT MAX(song_id) FROM music: NULL on an empty table
get_highest_track_id(m) == IF Len(m) = 0 THEN None ELSE Len(m)

get_track_name_by_id(track_id, m) == m[track_id].title

\* SELECT ... WHERE song_id = track_id has no ORDER BY: the rows come back in
\* an order the server chooses
FetchOrders == {"insertion", "reverse", "rotated"}

Reorder(rows, order) ==
    LET n == Len(rows)
    IN  CASE order = "insertion" -> rows
          [] order = "reverse"   -> [i \in 1..n |-> rows[n + 1 - i]]
          [] order = "rotated"   -> [i \in 1..n |-> rows[(i % n) + 1]]

fetch_track_signatures(fp, track_id, order) ==
    LET result_rows == Reorder(SelectSeq(fp, LAMBDA r : r.song_id = track_id), order)
    IN  [i \in 1..Len(result_rows) |->
            <<result_rows[i].center, result_rows[i].signature>>]

(***************************************************************************)
(* orchestrator.py: identify_from_hashes                                   *)
(***************************************************************************)
\* a variant that lists a repeated snippet entry once
hash_to_snippet_times_unique(q) ==
    [h \in {q[i][1] : i \in 1..Len(q)} |->
        LET firsts == SelectSeq([i \in 1..Len(q) |-> i],
                                LAMBDA i : /\ q[i][1] = h
                                           /\ \A j \in 1..(i - 1) : q[j] # q[i])
        IN  [i \in 1..Len(firsts) |-> q[firsts[i]][2]]]

\* lines 212-214: hash -> the list of its times in the snippet
hash_to_snippet_times(q) ==
    [h \in {q[i][1] : i \in 1..Len(q)} |->
        LET s == SelectSeq(q, LAMBDA e : e[1] = h)
        IN  [i \in 1..Len(s) |-> s[i][2]]]

\* a variant that records an offset without counting it
AddVoteOnce(votes, offset) ==
    IF offset \in DOMAIN votes THEN votes ELSE votes @@ (offset :> 1)

\* offset_votes[offset] += 1 on a defaultdict(int)
AddVote(votes, offset) ==
    IF offset \in DOMAIN votes
    THEN [votes EXCEPT ![offset] = @ + 1]
    ELSE votes @@ (offset :> 1)

\* a variant with the subtraction turned round
OffsetFlipped(anchor_time_idx, snippet_time) == snippet_time - anchor_time_idx

\* line 257
Offset(anchor_time_idx, snippet_time) == anchor_time_idx - snippet_time

RECURSIVE VoteSnippetTimesUntilLater(_, _, _, _)
\* a variant that leaves the loop at the first snippet time after the row's time
VoteSnippetTimesUntilLater(votes, anchor_time_idx, snippet_times, j) ==
    IF j > Len(snippet_times) THEN votes
    ELSE IF snippet_times[j] > anchor_time_idx THEN votes
    ELSE LET voted == AddVote(votes, Offset(anchor_time_idx, snippet_times[j]))
         IN  IF DOMAIN voted = {} THEN voted
             ELSE VoteSnippetTimesUntilLater(voted, anchor_time_idx, snippet_times, j + 1)

RECURSIVE VoteSnippetTimes(_, _, _, _)
\* lines 255-259: the inner loop over one stored row's snippet times
VoteSnippetTimes(votes, anchor_time_idx, snippet_times, j) ==
    IF j > Len(snippet_times) THEN votes
    ELSE LET voted == AddVote(votes, Offset(anchor_time_idx, snippet_times[j]))
         IN  IF DOMAIN voted = {} THEN voted
             ELSE VoteSnippetTimes(voted, anchor_time_idx, snippet_times, j + 1)

RECURSIVE VoteRows(_, _, _, _)
\* lines 246-259 over the rows whose hash the snippet holds
VoteRows(votes, rows, Q, i) ==
    IF i > Len(rows) THEN votes
    ELSE LET voted == VoteSnippetTimes(votes, rows[i][1], Q[rows[i][2]], 1)
         IN  IF DOMAIN voted = {} THEN voted
             ELSE VoteRows(voted, rows, Q, i + 1)

\* a variant that stops at the first row whose hash is not in the snippet
CountOffsetVotesUntilMiss(stored_hashes, Q) ==
    LET misses == {i \in 1..Len(stored_hashes) : stored_hashes[i][2] \notin DOMAIN Q}
        stop   == IF misses = {} THEN Len(stored_hashes) + 1
                  ELSE CHOOSE i \in misses : \A k \in misses : i <= k
    IN  VoteRows(<<>>, SubSeq(stored_hashes, 1, stop - 1), Q, 1)

\* lines 243-259: rows whose hash is not in the snippet are passed over
\* (line 251), the others vote
CountOffsetVotes(stored_hashes, Q) ==
    VoteRows(<<>>, SelectSeq(stored_hashes, LAMBDA row : row[2] \in DOMAIN Q), Q, 1)

\* a variant that adds the votes of all offsets up
BestVoteTotal(votes) ==
    Cardinality(UNION {{<<d, k>> : k \in 1..votes[d]} : d \in DOMAIN votes})

\* line 267: max(offset_votes.values())
BestVote(votes) ==
    CHOOSE v \in {votes[d] : d \in DOMAIN votes} :
        \A d \in DOMAIN votes : votes[d] <= v

ZeroDetail(id) ==
    [song_id |-> id, votes |-> 0, ratio |-> ZeroF, stored_ratio |-> ZeroF,
     score |-> ZeroF]

\* a variant without the stored-ratio test
FailsGateNoStored(best_vote, snippet_ratio, stored_ratio) ==
    \/ best_vote < MIN_ABSOLUTE_VOTES
    \/ FloatLess(snippet_ratio, MIN_SNIPPET_VOTE_RATIO)

\* lines 277-281: TRUE when the candidate is dropped
FailsGate(best_vote, snippet_ratio, stored_ratio) ==
    \/ best_vote < MIN_ABSOLUTE_VOTES
    \/ FloatLess(snippet_ratio, MIN_SNIPPET_VOTE_RATIO)
    \/ FloatLess(stored_ratio, MIN_STORED_VOTE_RATIO)

\* lines 234-297: the score_details entry of one track
ScoreDetail(id, stored_hash_count, votes, snippet_hash_count) ==
    IF stored_hash_count = 0 THEN ZeroDetail(id)
    ELSE IF DOMAIN votes = {} THEN ZeroDetail(id)
    ELSE LET best_vote     == BestVote(votes)
             snippet_ratio == FloatDiv(best_vote, snippet_hash_count)
             stored_ratio  == FloatDiv(best_vote, stored_hash_count)
         IN  IF FailsGate(best_vote, snippet_ratio, stored_ratio)
             THEN ZeroDetail(id)
             ELSE [song_id |-> id, votes |-> best_vote, ratio |-> snippet_ratio,
                   stored_ratio |-> stored_ratio,
                   score |-> FloatMul(snippet_ratio, stored_ratio)]

RECURSIVE BestScore(_, _, _)
\* lines 318-321
BestScore(details, i, best_score) ==
    IF i > Len(details) THEN best_score
    ELSE BestScore(details, i + 1,
                   IF FloatLess(best_score, details[i].score)
                   THEN details[i].score ELSE best_score)

RECURSIVE BestVotes(_, _, _)
\* lines 330-333
BestVotes(details, i, best_votes) ==
    IF i > Len(details) THEN best_votes
    ELSE BestVotes(details, i + 1,
                   IF details[i].votes > best_votes
                   THEN details[i].votes ELSE best_votes)

\* a variant that asks for more than MIN_ABSOLUTE_VOTES votes
ValidScoresStrict(details) == SelectSeq(details, LAMBDA d : d.votes > MIN_ABSOLUTE_VOTES)

\* lines 308-311
ValidScores(details) == SelectSeq(details, LAMBDA d : d.votes > 0)

\* lines 324-327
TopCandidates(valid_scores) ==
    LET best_score == BestScore(valid_scores, 1, ZeroF)
    IN  SelectSeq(valid_scores, LAMBDA d : d.score = best_score)

\* a variant that keeps the first winner only
BestSongIdsFirst(top_candidates) ==
    LET best_votes == BestVotes(top_candidates, 1, 0)
        winners    == SelectSeq(top_candidates, LAMBDA d : d.votes = best_votes)
    IN  <<winners[1].song_id>>

\* lines 336-339
BestSongIds(top_candidates) ==
    LET best_votes == BestVotes(top_candidates, 1, 0)
        winners    == SelectSeq(top_candidates, LAMBDA d : d.votes = best_votes)
    IN  [i \in 1..Len(winners) |-> winners[i].song_id]

Return(result, ids, reads) ==
    /\ mpc' = "done"
    /\ matches' = result
    /\ best_song_ids' = ids
    /\ db_reads' = reads
    /\ first_matches' = IF run = 1 THEN result ELSE first_matches

\* a variant that asks the store for its highest id before it looks at the query
StartReadsFirst ==
    /\ mpc = "start"
    /\ LET highest == get_highest_track_id(music)
       IN  IF Len(snippet_hashes) = 0 \/ highest = None
           THEN /\ Return(<<>>, <<>>, db_reads + 1)
                /\ UNCHANGED max_track_id
           ELSE /\ mpc' = "scan"
                /\ max_track_id' = highest
                /\ db_reads' = db_reads + 1
                /\ UNCHANGED <<matches, best_song_ids, first_matches>>
    /\ UNCHANGED <<appVars, engineVars, buildVars, dbVars, snippet_hashes, song_id, offset_votes,
                   score_details, run>>

\* lines 205-223
Start ==
    /\ mpc = "start"
    /\ IF Len(snippet_hashes) = 0
       THEN /\ Return(<<>>, <<>>, db_reads)
            /\ UNCHANGED max_track_id
       ELSE LET highest == get_highest_track_id(music)
            IN  IF highest = None
                THEN /\ Return(<<>>, <<>>, db_reads + 1)
                     /\ UNCHANGED max_track_id
                ELSE /\ mpc' = "scan"
                     /\ max_track_id' = highest
                     /\ db_reads' = db_reads + 1
                     /\ UNCHANGED <<matches, best_song_ids, first_matches>>
    /\ UNCHANGED <<appVars, engineVars, buildVars, dbVars, snippet_hashes, song_id, offset_votes,
                   score_details, run>>

\* a variant whose read takes the rows it fetched out of the table
ScanTrackConsuming ==
    /\ mpc = "scan"
    /\ song_id <= max_track_id
    /\ \E order \in FetchOrders :
         LET stored_hashes == fetch_track_signatures(fingerprint, song_id, order)
             votes == IF Len(stored_hashes) = 0 THEN <<>>
                      ELSE CountOffsetVotes(stored_hashes,
                                            hash_to_snippet_times(snippet_hashes))
         IN  /\ offset_votes' = votes
             /\ score_details' =
                  Append(score_details,
                         ScoreDetail(song_id, Len(stored_hashes), votes,
                                     Len(snippet_hashes)))
    /\ song_id' = song_id + 1
    /\ fingerprint' = SelectSeq(fingerprint, LAMBDA r : r.song_id # song_id)
    /\ db_reads' = db_reads + 1
    /\ UNCHANGED <<appVars, engineVars, buildVars, music, snippet_hashes, mpc, max_track_id, best_song_ids,
                   matches, run, first_matches>>

\* lines 231-297: one pass of the loop over song_id
ScanTrack ==
    /\ mpc = "scan"
    /\ song_id <= max_track_id
    /\ \E order \in FetchOrders :
         LET stored_hashes == fetch_track_signatures(fingerprint, song_id, order)
             votes == IF Len(stored_hashes) = 0 THEN <<>>
                      ELSE CountOffsetVotes(stored_hashes,
                                            hash_to_snippet_times(snippet_hashes))
         IN  /\ offset_votes' = votes
             /\ score_details' =
                  Append(score_details,
                         ScoreDetail(song_id, Len(stored_hashes), votes,
                                     Len(snippet_hashes)))
    /\ song_id' = song_id + 1
    /\ db_reads' = db_reads + 1
    /\ UNCHANGED <<appVars, engineVars, buildVars, dbVars, snippet_hashes, mpc, max_track_id, best_song_ids,
                   matches, run, first_matches>>

\* lines 303-358
Rank ==
    /\ mpc = "scan"
    /\ song_id > max_track_id
    /\ IF Len(score_details) = 0 THEN Return(<<>>, <<>>, db_reads)
       ELSE LET valid_scores == ValidScores(score_details)
            IN  IF Len(valid_scores) = 0 THEN Return(<<>>, <<>>, db_reads)
                ELSE LET ids == BestSongIds(TopCandidates(valid_scores))
                     IN  IF \E i \in 1..Len(ids) : ids[i] \notin 1..Len(music)
                         THEN /\ mpc' = "raised"
                              /\ UNCHANGED <<matches, best_song_ids, db_reads,
                                             first_matches>>
                         ELSE Return([i \in 1..Len(ids) |->
                                         get_track_name_by_id(ids[i], music)],
                                     ids, db_reads + Len(ids))
    /\ UNCHANGED <<appVars, engineVars, buildVars, dbVars, snippet_hashes, max_track_id, song_id, offset_votes,
                   score_details, run>>

\* the same call again, on the same store and the same query
Repeat ==
    /\ mpc = "done"
    /\ run = 1
    /\ run' = 2
    /\ mpc' = "start"
    /\ max_track_id' = None
    /\ song_id' = 1
    /\ offset_votes' = <<>>
    /\ score_details' = <<>>
    /\ best_song_ids' = <<>>
    /\ matches' = <<>>
    /\ db_reads' = 0
    /\ UNCHANGED <<appVars, engineVars, buildVars, dbVars, snippet_hashes, first_matches>>

(***************************************************************************)
(* The stores and queries the matcher is run on.  A track's rows are the   *)
(* entries one store_fingerprint_hashes call wrote: pairwise distinct, in  *)
(* ascending anchor time.  A title that occurs twice has rows only under   *)
(* its highest song_id (title_to_id keeps the last id of a title).         *)
(***************************************************************************)
MaxTracks == 2

\* the least number of stored rows with MIN_ABSOLUTE_VOTES / rows < MIN_STORED_VOTE_RATIO
StoredFloor == (1000 * MIN_ABSOLUTE_VOTES) \div 4 + 1

\* the least number of query entries with MIN_ABSOLUTE_VOTES / entries < MIN_SNIPPET_VOTE_RATIO
SnippetFloor == (1000 * MIN_ABSOLUTE_VOTES) \div 6 + 1

\* the number of query entries that six votes cover at exactly MIN_SNIPPET_VOTE_RATIO
SnippetEdge == (1000 * (MIN_ABSOLUTE_VOTES + 1)) \div 6

HashA == <<100, 200, 1>>

HashB == <<300, 100, 2>>

JunkStored == <<2047, 2047, 20>>

JunkQuery == <<2046, 2046, 20>>

TitleSeq == <<"alpha", "beta", "gamma", "delta">>

\* n entries of hash h at the frames start, start + 1, ...
Block(h, start, n) == [i \in 1..n |-> <<h, start + i - 1>>]

\* a track: a run of HashA, a run of HashB, and rows no query shares
Entries(shape) ==
    Block(HashA, shape.start, shape.len)
      \o Block(HashB, shape.start2, shape.len2)
      \o Block(JunkStored, shape.start2 + shape.len2 + shape.start + shape.len, shape.pad)

Shape(start, len, start2, len2, pad) ==
    [start |-> start, len |-> len, start2 |-> start2, len2 |-> len2, pad |-> pad]

SmallShapes ==
    { Shape(0, 0, 0, 0, 0),
      Shape(0, MIN_ABSOLUTE_VOTES - 1, 0, 0, 0),
      Shape(0, MIN_ABSOLUTE_VOTES, 0, 0, 0),
      Shape(2, 6, 0, 0, 2),
      Shape(0, 9, 0, 0, 9),
      Shape(0, MIN_ABSOLUTE_VOTES, 10, MIN_ABSOLUTE_VOTES, 0),
      Shape(0, 0, 3, 6, 1) }

BigShapes ==
    { Shape(0, MIN_ABSOLUTE_VOTES, 0, 0, StoredFloor - MIN_ABSOLUTE_VOTES),
      Shape(0, MIN_ABSOLUTE_VOTES, 0, 0, StoredFloor - MIN_ABSOLUTE_VOTES - 1) }

\* the rows store_fingerprint_hashes writes for one track
Rows(id, entries) ==
    [i \in 1..Len(entries) |->
        [song_id |-> id, center |-> entries[i][2], signature |-> entries[i][1]]]

RECURSIVE AllRows(_, _)
AllRows(shapes, id) ==
    IF id > Len(shapes) THEN <<>>
    ELSE Rows(id, Entries(shapes[id])) \o AllRows(shapes, id + 1)

HasRows(shape) == shape.len + shape.len2 + shape.pad > 0

Catalogs(shapeSet) ==
    { c \in UNION { [1..n -> shapeSet \X {TitleSeq[k] : k \in 1..n}] : n \in 0..MaxTracks } :
        \A i \in DOMAIN c :
           /\ c[i][2] \in {TitleSeq[k] : k \in 1..i}
           /\ \A j \in DOMAIN c : i < j /\ c[i][2] = c[j][2] => ~HasRows(c[i][1]) }

MusicOf(c) ==
    [i \in DOMAIN c |-> [title |-> c[i][2], fingerprinted |-> HasRows(c[i][1])]]

FingerprintOf(c) == AllRows([i \in DOMAIN c |-> c[i][1]], 1)

\* each entry of q twice over
Doubled(q) == [i \in 1..(2 * Len(q)) |-> q[(i + 1) \div 2]]

FixedQueries ==
    { <<>>,
      Block(HashA, 0, MIN_ABSOLUTE_VOTES - 1),
      Block(HashA, 0, MIN_ABSOLUTE_VOTES),
      Block(HashA, 0, 10),
      Block(HashA, 0, 9) \o Block(JunkQuery, 9, 6),
      Block(HashA, 0, MIN_ABSOLUTE_VOTES) \o Block(HashB, 0, MIN_ABSOLUTE_VOTES),
      Doubled(Block(HashA, 0, 3)),
      Block(HashB, 0, 6) }

BigQueries ==
    { Block(HashA, 0, MIN_ABSOLUTE_VOTES)
         \o Block(JunkQuery, 9, SnippetFloor - MIN_ABSOLUTE_VOTES),
      Block(HashA, 0, MIN_ABSOLUTE_VOTES)
         \o Block(JunkQuery, 9, SnippetFloor - MIN_ABSOLUTE_VOTES - 1),
      Block(HashA, 0, 6) \o Block(JunkQuery, 9, SnippetEdge - 6),
      Block(HashA, 0, 6) \o Block(JunkQuery, 9, SnippetEdge - 6 + 1) }

MaxFrame == 3

MaxWidth == 7

\* where the segments taken as queries start, and how many frames they span
SegmentStarts == {0, 1, MaxFrame}

SegmentWidths == {MaxWidth - 4, MaxWidth}

\* the entries of a track as the hasher lists them: <<hash_tuple, anchor_time_idx>>
TrackEntries(fp, id) ==
    LET rows == SelectSeq(fp, LAMBDA r : r.song_id = id)
    IN  [i \in 1..Len(rows) |-> <<rows[i].signature, rows[i].center>>]

\* the entries of a track in the frames f .. f + w - 1, re-timed to start at 0
Segment(fp, id, f, w) ==
    LET part == SelectSeq(TrackEntries(fp, id),
                          LAMBDA e : f <= e[2] /\ e[2] < f + w)
    IN  [i \in 1..Len(part) |-> <<part[i][1], part[i][2] - f>>]

DerivedQueries(c) ==
    LET fp == FingerprintOf(c)
    IN  { TrackEntries(fp, id) : id \in DOMAIN c }
          \cup { Segment(fp, id, f, w) : id \in DOMAIN c, f \in SegmentStarts,
                                         w \in SegmentWidths }

\* no call made on the store yet
StoreIdle ==
    /\ last_call = [op |-> "none"]
    /\ batches = <<>>

\* run_cli not called
CliIdle ==
    /\ argv = <<>>
    /\ cpc = "idle"
    /\ command = "None"
    /\ connection = "unopened"
    /\ outcome = [kind |-> "none"]
    /\ cli_exit = [kind |-> "none"]

\* the programs around the library at rest
\* no window
GuiIdle ==
    /\ is_recording = FALSE
    /\ record_button = "normal"
    /\ stop_button = "disabled"
    /\ thread_pc = <<>>
    /\ ticks = <<>>
    /\ window = "none"
    /\ db_connection = "unopened"

AppIdle == StoreIdle /\ CliIdle /\ cancel_requested = FALSE /\ GuiIdle

\* the audio pipeline at rest
EngineIdle ==
    /\ audio_data = <<>>
    /\ epc = "idle"
    /\ power_matrix = <<>>
    /\ peak_list = <<>>
    /\ hashes = <<>>
    /\ unique_hashes = <<>>

InitMatcher(c, q) ==
    /\ EngineIdle
    /\ AppIdle
    /\ music = MusicOf(c)
    /\ fingerprint = FingerprintOf(c)
    /\ snippet_hashes = q
    /\ mpc = "start"
    /\ max_track_id = None
    /\ song_id = 1
    /\ offset_votes = <<>>
    /\ score_details = <<>>
    /\ best_song_ids = <<>>
    /\ matches = <<>>
    /\ db_reads = 0
    /\ run = 1
    /\ first_matches = <<>>
    /\ mp3_dir = <<>>
    /\ wav_dir = <<>>
    /\ bpc = "idle"
    /\ todo = <<>>
    /\ title_to_id = <<>>
    /\ wav_track_id = None
    /\ fingerprint_hashes = <<>>
    /\ events = <<>>

InitMatch ==
    \/ \E c \in Catalogs(SmallShapes) :
          \E q \in FixedQueries \cup DerivedQueries(c) : InitMatcher(c, q)
    \/ \E c \in Catalogs(BigShapes \cup {Shape(0, 9, 0, 0, 9)}) :
          \E q \in {Block(HashA, 0, MIN_ABSOLUTE_VOTES), Block(HashA, 0, 10), <<>>} :
             InitMatcher(c, q)
    \/ \E c \in Catalogs({Shape(0, MIN_ABSOLUTE_VOTES, 0, 0, 0), Shape(0, 9, 0, 0, 9)}) :
          \E q \in BigQueries : InitMatcher(c, q)

NextMatch == Start \/ ScanTrack \/ Rank \/ Repeat

MatchSpec == InitMatch /\ [][NextMatch]_vars

\* the call again on the same store, the entries of the query in another order
RepeatPermuted ==
    /\ mpc = "done"
    /\ run = 1
    /\ run' = 2
    /\ mpc' = "start"
    /\ \E order \in FetchOrders : snippet_hashes' = Reorder(snippet_hashes, order)
    /\ max_track_id' = None
    /\ song_id' = 1
    /\ offset_votes' = <<>>
    /\ score_details' = <<>>
    /\ best_song_ids' = <<>>
    /\ matches' = <<>>
    /\ db_reads' = 0
    /\ UNCHANGED <<appVars, engineVars, buildVars, dbVars, first_matches>>

InitPermute ==
    \E c \in Catalogs(SmallShapes) :
       \E q \in FixedQueries \cup DerivedQueries(c) : InitMatcher(c, q)

NextPermute == Start \/ ScanTrack \/ Rank \/ RepeatPermuted

PermuteSpec == InitPermute /\ [][NextPermute]_vars

(***************************************************************************)
(* What the matcher is specified to compute, stated on the store and the   *)
(* query alone, in exact arithmetic.                                       *)
(***************************************************************************)
TrackIds == 1..Len(music)

Nq == Len(snippet_hashes)

StoredRows(id) == {i \in 1..Len(fingerprint) : fingerprint[i].song_id = id}

Ns(id) == Cardinality(StoredRows(id))

QueryHashes == {snippet_hashes[j][1] : j \in 1..Nq}

\* the pairs (stored row, query entry) of one hash
MatchingPairs(id) ==
    {p \in {i \in StoredRows(id) : fingerprint[i].signature \in QueryHashes} \X (1..Nq) :
        fingerprint[p[1]].signature = snippet_hashes[p[2]][1]}

PairOffset(p) == fingerprint[p[1]].center - snippet_hashes[p[2]][2]

\* the offset histogram: offset -> number of pairs at that offset
Histogram(id) ==
    LET P == MatchingPairs(id)
    IN  [d \in {PairOffset(p) : p \in P} |->
            Cardinality({p \in P : PairOffset(p) = d})]

VStarOf(hist) ==
    IF DOMAIN hist = {} THEN 0
    ELSE CHOOSE v \in {hist[d] : d \in DOMAIN hist} : \A d \in DOMAIN hist : hist[d] <= v

VStar(id) == VStarOf(Histogram(id))

\* v >= 5, v / Nq >= 0.006 and v / n >= 0.004
GateHolds(v, n) ==
    /\ v >= 5
    /\ 1000 * v >= 6 * Nq
    /\ 1000 * v >= 4 * n

PassesGate(id) == GateHolds(VStar(id), Ns(id))

Returned == {best_song_ids[i] : i \in 1..Len(best_song_ids)}

ReturnedTitles == {matches[i] : i \in 1..Len(matches)}

Returns ==
    /\ Len(matches) = Len(best_song_ids)
    /\ \A i \in 1..Len(matches) :
          /\ best_song_ids[i] \in TrackIds
          /\ matches[i] = music[best_song_ids[i]].title

\* C1: every returned title is the title of a returned track, and every
\* returned track passes all three gates: v* >= 5, v*/Nq >= 0.006 and
\* v*/Ns >= 0.004; a track failing one of them is never returned.
C1_GatedResults ==
    mpc = "done" =>
       /\ Returns
       /\ \A id \in TrackIds : id \in Returned => PassesGate(id)

\* a call returned a title while another track reached five votes and was
\* dropped by a ratio gate alone
C1_Witness ==
    /\ mpc = "done"
    /\ matches # <<>>
    /\ \E id \in TrackIds : id \notin Returned /\ VStar(id) >= 5 /\ ~PassesGate(id)

\* score (v/Nq) * (v/n) of i above that of j, Nq being common: v_i^2 * n_j > v_j^2 * n_i
ScoreAbove(i, j) == VStar(i) * VStar(i) * Ns(j) > VStar(j) * VStar(j) * Ns(i)

Outranks(i, j) ==
    \/ ScoreAbove(i, j)
    \/ ~ScoreAbove(j, i) /\ VStar(i) > VStar(j)

TopTracks ==
    {id \in TrackIds : PassesGate(id)
                        /\ \A j \in TrackIds : PassesGate(j) => ~Outranks(j, id)}

\* C2: the returned titles are exactly the titles of the gate-passing tracks
\* of maximal score (v*/Nq)*(v*/Ns) and, among those, of maximal v*.
C2_TopScoreTopVotes ==
    mpc = "done" =>
       /\ Returned = TopTracks
       /\ ReturnedTitles = {music[id].title : id \in TopTracks}

\* C3: a call on a non-empty query returns the empty list exactly when no
\* track passes the gate, and no call ever raises.
C3_EmptyIffNoPass ==
    /\ mpc # "raised"
    /\ mpc = "done" /\ Nq > 0 =>
          (matches = <<>> <=> \A id \in TrackIds : ~PassesGate(id))

\* no match on a store that holds a track without rows and a track with rows
C3_Witness ==
    /\ mpc = "done"
    /\ Nq > 0
    /\ matches = <<>>
    /\ \E id \in TrackIds : Ns(id) = 0
    /\ \E id \in TrackIds : VStar(id) > 0

\* C4: on an empty query the call returns the empty list and has read
\* nothing from the store.
C4_EmptyQueryNoRead ==
    mpc = "done" /\ Nq = 0 => matches = <<>> /\ db_reads = 0

C4_Witness == mpc = "done" /\ Nq = 0 /\ Len(fingerprint) > 0

\* the query is the full hash list of track id
SelfQuery(id) == snippet_hashes = TrackEntries(fingerprint, id)

\* C5 as claimed: matching the full hash list of any track R returns R's
\* title with at least half of R's entries as votes, whatever their number.
C5_SelfMatchAnySize ==
    mpc = "done" =>
       \A id \in TrackIds :
          SelfQuery(id) =>
             /\ music[id].title \in ReturnedTitles
             /\ 2 * score_details[id].votes >= Ns(id)

\* C5 amended: matching the full hash list of a track R with at least
\* MIN_ABSOLUTE_VOTES entries returns R's title, and R's votes are the
\* number of R's entries.
C5_SelfMatch ==
    mpc = "done" =>
       \A id \in TrackIds :
          SelfQuery(id) /\ Ns(id) >= MIN_ABSOLUTE_VOTES =>
             /\ music[id].title \in ReturnedTitles
             /\ id \in Returned
             /\ score_details[id].votes = Ns(id)

C5_Witness ==
    /\ mpc = "done"
    /\ Len(music) > 1
    /\ \E id \in TrackIds :
          SelfQuery(id) /\ Ns(id) > MIN_ABSOLUTE_VOTES /\ music[id].title \in ReturnedTitles

\* the query is the entries of track id in the frames f .. f + w - 1, re-timed by f
SegmentQuery(id, f, w) == Nq > 0 /\ snippet_hashes = Segment(fingerprint, id, f, w)

\* C6: when the query is a contiguous segment of track R starting at frame
\* f, the histogram built for R has its maximum at offset f.
C6_OffsetShift ==
    mpc \in {"scan", "done"} /\ song_id > 1 =>
       \A f \in SegmentStarts, w \in SegmentWidths :
          SegmentQuery(song_id - 1, f, w) =>
             /\ f \in DOMAIN offset_votes
             /\ \A d \in DOMAIN offset_votes : offset_votes[d] <= offset_votes[f]

C6_Witness ==
    /\ mpc = "scan"
    /\ song_id > 1
    /\ \E f \in SegmentStarts \ {0}, w \in SegmentWidths :
          /\ SegmentQuery(song_id - 1, f, w)
          /\ Nq >= MIN_ABSOLUTE_VOTES
          /\ f \in DOMAIN offset_votes
          /\ offset_votes[f] = Nq
          /\ \E d \in DOMAIN offset_votes : offset_votes[d] < offset_votes[f]

EntrySet(id) == {<<fingerprint[i].center, fingerprint[i].signature>> : i \in StoredRows(id)}

\* C7: two tracks of different titles holding the same entries are both
\* among the returned tracks, each with its title in the returned list, or
\* neither is; and a track tied with a returned track on (score, v*) is
\* returned too.
C7_CoWinners ==
    mpc = "done" =>
       /\ Returns
       /\ LET entries == [id \in TrackIds |-> EntrySet(id)]
              v       == [id \in TrackIds |-> VStar(id)]
              n       == [id \in TrackIds |-> Ns(id)]
          IN  /\ v \in [TrackIds -> Nat]
              /\ n \in [TrackIds -> Nat]
              /\ \A i, j \in TrackIds :
                    /\ music[i].title # music[j].title /\ entries[i] = entries[j] =>
                          (i \in Returned <=> j \in Returned)
                    /\ i \in Returned /\ GateHolds(v[j], n[j]) /\ v[i] = v[j]
                         /\ v[i] * v[i] * n[j] = v[j] * v[j] * n[i] => j \in Returned

C7_Witness ==
    /\ mpc = "done"
    /\ Len(matches) = 2
    /\ matches[1] # matches[2]
    /\ EntrySet(best_song_ids[1]) = EntrySet(best_song_ids[2])

\* C8: the same call on the same store and query returns the same list of
\* titles in the same order, whatever order the store returns rows in.
C8_Deterministic ==
    mpc = "done" /\ run = 2 => matches = first_matches

C8_Witness == mpc = "done" /\ run = 2 /\ Len(matches) = 2 /\ matches = first_matches

(***************************************************************************)
(* SASP_audio_processing.py: from a WAV file to its hash list              *)
(***************************************************************************)
MAX_PEAKS_PER_COLUMN == 5

FAN_VALUE == 6

MAX_TIME_DELTA == 20

WINDOW_SIZE == 4096

HOP_SIZE == 2048

\* line 104: (len(audio_data) - window_size) // hop_size, rounded down
n_windows(samples) ==
    IF samples >= WINDOW_SIZE
    THEN (samples - WINDOW_SIZE) \div HOP_SIZE
    ELSE 0 - ((WINDOW_SIZE - samples + HOP_SIZE - 1) \div HOP_SIZE)

\* An audio is [readable, samples, loud, bins]: whether the file can be read,
\* its number of samples, whether any sample is non-zero, and the frequency
\* indices the peak search keeps in a frame, in the order it lists them (the
\* audio sounds the same in every frame).  A silent audio divides by its zero
\* maximum (line 91): every cell is NaN, no test on a NaN cell succeeds, and
\* each frame gets MAX_PEAKS_PER_COLUMN peaks at the indices argpartition
\* leaves last.
Audio(readable, samples, loud, bins) ==
    [readable |-> readable, samples |-> samples, loud |-> loud, bins |-> bins]

\* lines 136-167 with 64-133: None for a path not ending in ".wav", an
\* exception from wavfile.read (unreadable file), from np.max (no samples) or
\* from np.zeros (a negative number of frames), a grid otherwise
generate_spectrogram_from_wav(name, audio) ==
    IF name[2] # ".wav" THEN "None"
    ELSE IF ~audio.readable THEN "raises"
    ELSE IF audio.samples = 0 THEN "raises"
    ELSE IF n_windows(audio.samples) < 0 THEN "raises"
    ELSE "grid"

\* lines 283-315 on the grid of an audio: the peaks (time_idx, freq_idx,
\* magnitude), frame by frame
_extract_peak_constellation(audio) ==
    LET k == Len(audio.bins)
    IN  [i \in 1..(n_windows(audio.samples) * k) |->
            <<(i - 1) \div k, audio.bins[((i - 1) % k) + 1], 1>>]

\* dict.fromkeys: the first occurrence of each element, in order
\* a variant that loses the order, as a set would
DedupUnordered(entries) ==
    LET firsts == SelectSeq([i \in 1..Len(entries) |-> i],
                            LAMBDA i : \A j \in 1..(i - 1) : entries[j] # entries[i])
    IN  [k \in 1..Len(firsts) |-> entries[firsts[Len(firsts) + 1 - k]]]

Dedup(entries) ==
    LET firsts == SelectSeq([i \in 1..Len(entries) |-> i],
                            LAMBDA i : \A j \in 1..(i - 1) : entries[j] # entries[i])
    IN  [k \in 1..Len(firsts) |-> entries[firsts[k]]]

\* a variant without the upper limit on the time delta
AnchorHashesAnyDelta(peaks, anchor_idx) ==
    LET reach   == IF Len(peaks) - anchor_idx < FAN_VALUE
                   THEN Len(peaks) - anchor_idx ELSE FAN_VALUE
        targets == SelectSeq([offset \in 1..reach |-> peaks[anchor_idx + offset]],
                             LAMBDA t : t[1] - peaks[anchor_idx][1] > 0)
    IN  [i \in 1..Len(targets) |->
            << <<peaks[anchor_idx][2], targets[i][2],
                 targets[i][1] - peaks[anchor_idx][1]>>,
               peaks[anchor_idx][1] >>]

\* lines 365-388: the hashes of one anchor
AnchorHashes(peaks, anchor_idx) ==
    LET reach   == IF Len(peaks) - anchor_idx < FAN_VALUE
                   THEN Len(peaks) - anchor_idx ELSE FAN_VALUE
        targets == SelectSeq([offset \in 1..reach |-> peaks[anchor_idx + offset]],
                             LAMBDA t : /\ t[1] - peaks[anchor_idx][1] > 0
                                        /\ t[1] - peaks[anchor_idx][1] <= MAX_TIME_DELTA)
    IN  [i \in 1..Len(targets) |->
            << <<peaks[anchor_idx][2], targets[i][2],
                 targets[i][1] - peaks[anchor_idx][1]>>,
               peaks[anchor_idx][1] >>]

RECURSIVE HashesFromBackwards(_, _)
\* a variant that lists the later anchors first
HashesFromBackwards(peaks, anchor_idx) ==
    IF anchor_idx > Len(peaks) THEN <<>>
    ELSE HashesFromBackwards(peaks, anchor_idx + 1) \o AnchorHashes(peaks, anchor_idx)

RECURSIVE HashesFrom(_, _)
HashesFrom(peaks, anchor_idx) ==
    IF anchor_idx > Len(peaks) THEN <<>>
    ELSE AnchorHashes(peaks, anchor_idx) \o HashesFrom(peaks, anchor_idx + 1)

\* lines 318-394
generate_constellation_hashes(audio) ==
    Dedup(HashesFrom(_extract_peak_constellation(audio), 1))

(***************************************************************************)
(* orchestrator.py: construct_music_database.  A file name is              *)
(* <<stem, extension>>; every store call either commits or raises with     *)
(* nothing committed, and an exception nobody catches ends the build.      *)
(***************************************************************************)
\* the file names in the order sorted() lists them
SortedNames ==
    << <<"a", ".MP3">>, <<"a", ".WAV">>, <<"a", ".mp3">>, <<"a", ".wav">>,
       <<"b", ".mp3">>, <<"b", ".wav">>, <<"c", ".wav">> >>

\* str.lower on an extension
Lower(ext) ==
    CASE ext = ".MP3" -> ".mp3"
      [] ext = ".WAV" -> ".wav"
      [] OTHER        -> ext

\* lines 51-76: the names of the directory that end in suffix, ignoring case
_iter_files(directory, suffix) ==
    SelectSeq(SortedNames,
              LAMBDA name : name \in DOMAIN directory /\ Lower(name[2]) = suffix)

\* os.path.splitext(name)[0]
splitext(name) == name[1]

\* database.py lines 98-124
insert_track_metadata(m, title) == Append(m, [title |-> title, fingerprinted |-> FALSE])

\* database.py lines 127-163: the song_ids with that title; result_rows[0] is
\* any of them, and raises IndexError when there is none
lookup_track_id_by_filename(m, name) ==
    {id \in 1..Len(m) : m[id].title = splitext(name)}

\* a variant that inserts every entry of the list
store_fingerprint_hashes_all(fp, id, hash_entries) == fp \o Rows(id, hash_entries)

\* database.py lines 166-198
store_fingerprint_hashes(fp, id, hash_entries) == fp \o Rows(id, Dedup(hash_entries))

\* database.py lines 201-219: an UPDATE of the rows with that song_id
mark_as_fingerprinted(m, id) ==
    [i \in 1..Len(m) |-> IF i = id THEN [m[i] EXCEPT !.fingerprinted = TRUE] ELSE m[i]]

Event(op, id) == [op |-> op, id |-> id]

Abort(op, id) ==
    /\ bpc' = "aborted"
    /\ events' = Append(events, Event(op, id))

\* a variant that recreates the fingerprint table only
InitializeSchemaKeepsMusic ==
    /\ bpc = "schema"
    /\ \/ /\ fingerprint' = <<>>
          /\ bpc' = "phase1"
          /\ todo' = _iter_files(mp3_dir, ".mp3")
          /\ events' = <<Event("reset", Len(music))>>
          /\ UNCHANGED music
       \/ /\ Abort("schema_failed", None)
          /\ UNCHANGED <<music, fingerprint, todo>>
    /\ UNCHANGED <<appVars, engineVars, matchVars, mp3_dir, wav_dir, title_to_id, wav_track_id,
                   fingerprint_hashes>>

\* line 101: initialize_schema drops and recreates both tables; the calls on
\* the new tables start with the reset, which notes how many tracks it dropped
InitializeSchema ==
    /\ bpc = "schema"
    /\ \/ /\ music' = <<>>
          /\ fingerprint' = <<>>
          /\ bpc' = "phase1"
          /\ todo' = _iter_files(mp3_dir, ".mp3")
          /\ events' = <<Event("reset", Len(music))>>
       \/ /\ Abort("schema_failed", None)
          /\ UNCHANGED <<music, fingerprint, todo>>
    /\ UNCHANGED <<appVars, engineVars, matchVars, mp3_dir, wav_dir, title_to_id, wav_track_id,
                   fingerprint_hashes>>

\* lines 111-131: one MP3 file of phase 1
IngestMp3 ==
    /\ bpc = "phase1"
    /\ Len(todo) > 0
    /\ LET mp3_file    == Head(todo)
           track_title == splitext(mp3_file)
           new_id      == Len(music) + 1
       IN  \/ /\ music' = insert_track_metadata(music, track_title)
              /\ title_to_id' =
                   [t \in DOMAIN title_to_id \cup {track_title} |->
                       IF t = track_title THEN new_id ELSE title_to_id[t]]
              /\ wav_dir' =
                   IF mp3_dir[mp3_file].decodes
                   THEN [n \in DOMAIN wav_dir \cup {<<track_title, ".wav">>} |->
                            IF n = <<track_title, ".wav">>
                            THEN mp3_dir[mp3_file].audio ELSE wav_dir[n]]
                   ELSE wav_dir
              /\ todo' = Tail(todo)
              /\ events' = Append(events, Event("insert", new_id))
              /\ UNCHANGED bpc
           \/ /\ Abort("insert_failed", new_id)
              /\ UNCHANGED <<music, title_to_id, wav_dir, todo>>
    /\ UNCHANGED <<appVars, engineVars, matchVars, fingerprint, mp3_dir, wav_track_id, fingerprint_hashes>>

\* line 138: the WAV directory is listed when phase 1 is over
ListWavs ==
    /\ bpc = "phase1"
    /\ Len(todo) = 0
    /\ bpc' = "phase2"
    /\ todo' = _iter_files(wav_dir, ".wav")
    /\ UNCHANGED <<appVars, engineVars, matchVars, dbVars, mp3_dir, wav_dir, title_to_id, wav_track_id,
                   fingerprint_hashes, events>>

\* lines 138-168: one WAV file of phase 2, up to the track_id it belongs to
ProcessWav ==
    /\ bpc = "phase2"
    /\ Len(todo) > 0
    /\ LET wav_file    == Head(todo)
           wav_title   == splitext(wav_file)
           spectrogram == generate_spectrogram_from_wav(wav_file, wav_dir[wav_file])
           skip        == /\ todo' = Tail(todo)
                          /\ UNCHANGED <<bpc, wav_track_id, fingerprint_hashes, events>>
           store(id)   == /\ bpc' = "store"
                          /\ wav_track_id' = id
                          /\ fingerprint_hashes' =
                               generate_constellation_hashes(wav_dir[wav_file])
                          /\ UNCHANGED <<todo, events>>
       IN  CASE spectrogram = "None"   -> skip
             [] spectrogram = "raises" ->
                  /\ Abort("spectrogram_raised", None)
                  /\ UNCHANGED <<todo, wav_track_id, fingerprint_hashes>>
             [] OTHER ->
                  IF wav_title \in DOMAIN title_to_id
                  THEN store(title_to_id[wav_title])
                  ELSE \/ /\ lookup_track_id_by_filename(music, wav_file) = {}
                          /\ skip
                       \/ \E id \in lookup_track_id_by_filename(music, wav_file) :
                             store(id)
                       \/ /\ Abort("lookup_failed", None)
                          /\ UNCHANGED <<todo, wav_track_id, fingerprint_hashes>>
    /\ UNCHANGED <<appVars, engineVars, matchVars, dbVars, mp3_dir, wav_dir, title_to_id>>

\* a variant that goes on to line 174 when the store call failed
StoreHashesSwallowed ==
    /\ bpc = "store"
    /\ bpc' = "mark"
    /\ \/ /\ fingerprint' =
               store_fingerprint_hashes(fingerprint, wav_track_id, fingerprint_hashes)
          /\ events' = Append(events, Event("store", wav_track_id))
       \/ /\ events' = Append(events, Event("store_failed", wav_track_id))
          /\ UNCHANGED fingerprint
    /\ UNCHANGED <<appVars, engineVars, matchVars, music, mp3_dir, wav_dir, todo, title_to_id, wav_track_id,
                   fingerprint_hashes>>

\* line 171
StoreHashes ==
    /\ bpc = "store"
    /\ \/ /\ fingerprint' =
               store_fingerprint_hashes(fingerprint, wav_track_id, fingerprint_hashes)
          /\ bpc' = "mark"
          /\ events' = Append(events, Event("store", wav_track_id))
       \/ /\ Abort("store_failed", wav_track_id)
          /\ UNCHANGED fingerprint
    /\ UNCHANGED <<appVars, engineVars, matchVars, music, mp3_dir, wav_dir, todo, title_to_id, wav_track_id,
                   fingerprint_hashes>>

\* a variant that stays on the WAV file it has just marked
MarkFingerprintedStay ==
    /\ bpc = "mark"
    /\ \/ /\ music' = mark_as_fingerprinted(music, wav_track_id)
          /\ bpc' = "phase2"
          /\ events' = Append(events, Event("mark", wav_track_id))
          /\ UNCHANGED todo
       \/ /\ Abort("mark_failed", wav_track_id)
          /\ UNCHANGED <<music, todo>>
    /\ UNCHANGED <<appVars, engineVars, matchVars, fingerprint, mp3_dir, wav_dir, title_to_id, wav_track_id,
                   fingerprint_hashes>>

\* line 174, and on to the next WAV file
MarkFingerprinted ==
    /\ bpc = "mark"
    /\ \/ /\ music' = mark_as_fingerprinted(music, wav_track_id)
          /\ bpc' = "phase2"
          /\ todo' = Tail(todo)
          /\ events' = Append(events, Event("mark", wav_track_id))
       \/ /\ Abort("mark_failed", wav_track_id)
          /\ UNCHANGED <<music, todo>>
    /\ UNCHANGED <<appVars, engineVars, matchVars, fingerprint, mp3_dir, wav_dir, title_to_id, wav_track_id,
                   fingerprint_hashes>>

\* line 178
FinishBuild ==
    /\ bpc = "phase2"
    /\ Len(todo) = 0
    /\ bpc' = "done"
    /\ UNCHANGED <<appVars, engineVars, matchVars, dbVars, mp3_dir, wav_dir, todo, title_to_id, wav_track_id,
                   fingerprint_hashes, events>>

(***************************************************************************)
(* The directories and the old store a build starts from.                  *)
(***************************************************************************)
\* the number of frames of a full-length song
SongFrames == 3

SongAudio(bin) == Audio(TRUE, WINDOW_SIZE + SongFrames * HOP_SIZE, TRUE, <<bin>>)

\* a window and less than a hop: a grid of zero frames
ShortAudio == Audio(TRUE, WINDOW_SIZE + HOP_SIZE - 1, TRUE, <<100>>)

\* less than a window
TinyAudio == Audio(TRUE, WINDOW_SIZE - 1, TRUE, <<100>>)

EmptyAudio == Audio(TRUE, 0, FALSE, <<>>)

\* all samples zero; which indices a NaN column yields is up to argpartition
SilentAudios ==
    { Audio(TRUE, WINDOW_SIZE + SongFrames * HOP_SIZE, FALSE, bins) :
        bins \in { <<0, 1, 2, 3, 4>>, <<2043, 2044, 2045, 2046, 2047>> } }

CorruptAudio == Audio(FALSE, WINDOW_SIZE + SongFrames * HOP_SIZE, TRUE, <<100>>)

Mp3(decodes, audio) == [decodes |-> decodes, audio |-> audio]

Undecodable == Mp3(FALSE, EmptyAudio)

Mp3Options(name) ==
    CASE name = <<"a", ".MP3">> -> {Mp3(TRUE, SongAudio(300))}
      [] name = <<"a", ".mp3">> ->
            {Mp3(TRUE, SongAudio(100)), Undecodable, Mp3(TRUE, ShortAudio),
             Mp3(TRUE, TinyAudio), Mp3(TRUE, EmptyAudio)}
              \cup {Mp3(TRUE, au) : au \in SilentAudios}
      [] name = <<"b", ".mp3">> ->
            {Mp3(TRUE, SongAudio(200)), Undecodable, Mp3(TRUE, ShortAudio),
             Mp3(TRUE, TinyAudio)}

WavOptions(name) ==
    CASE name = <<"a", ".WAV">> -> {SongAudio(400)}
      [] name = <<"a", ".wav">> -> {SongAudio(400), CorruptAudio}
      [] name = <<"c", ".wav">> -> {SongAudio(500), CorruptAudio}

\* the directories over the names: any subset of them, each with one of its options
Directories(names, options) ==
    UNION { { d \in [present -> UNION {options[n] : n \in names}] :
                \A n \in present : d[n] \in options[n] } :
            present \in SUBSET names }

Mp3Names == {<<"a", ".MP3">>, <<"a", ".mp3">>, <<"b", ".mp3">>}

WavNames == {<<"a", ".WAV">>, <<"a", ".wav">>, <<"c", ".wav">>}

Mp3Dirs == Directories(Mp3Names, [n \in Mp3Names |-> Mp3Options(n)])

WavDirs == Directories(WavNames, [n \in WavNames |-> WavOptions(n)])

\* the tables an earlier build left, with the calls that made them
OldStores ==
    { [music |-> <<>>, fingerprint |-> <<>>, events |-> <<>>],
      [music |-> <<[title |-> "old", fingerprinted |-> TRUE]>>,
       fingerprint |-> Rows(1, generate_constellation_hashes(SongAudio(600))),
       events |-> <<Event("insert", 1), Event("store", 1), Event("mark", 1)>>] }

InitBuild ==
    /\ EngineIdle
    /\ AppIdle
    /\ \E old \in OldStores :
          /\ music = old.music
          /\ fingerprint = old.fingerprint
          /\ events = old.events
    /\ mp3_dir \in Mp3Dirs
    /\ wav_dir \in WavDirs
    /\ bpc = "schema"
    /\ todo = <<>>
    /\ title_to_id = <<>>
    /\ wav_track_id = None
    /\ fingerprint_hashes = <<>>
    /\ snippet_hashes = <<>>
    /\ mpc = "idle"
    /\ max_track_id = None
    /\ song_id = 1
    /\ offset_votes = <<>>
    /\ score_details = <<>>
    /\ best_song_ids = <<>>
    /\ matches = <<>>
    /\ db_reads = 0
    /\ run = 1
    /\ first_matches = <<>>

NextBuild ==
    \/ InitializeSchema
    \/ IngestMp3
    \/ ListWavs
    \/ ProcessWav
    \/ StoreHashes
    \/ MarkFingerprinted
    \/ FinishBuild

BuildSpec == InitBuild /\ [][NextBuild]_vars

(***************************************************************************)
(* What a build is specified to do.                                        *)
(***************************************************************************)
\* call op for track id is the k-th store call on the current tables
Called(op, id, k) == k \in 1..Len(events) /\ events[k] = Event(op, id)

Fingerprinted(id) == id \in 1..Len(music) /\ music[id].fingerprinted

\* C9: a track is marked fingerprinted only after store_fingerprint_hashes
\* committed for it, and a track whose store_fingerprint_hashes failed is
\* never handed to mark_as_fingerprinted and keeps its flag false.
C9_StoreThenMark ==
    /\ \A id \in 1..Len(music) :
          music[id].fingerprinted =>
             \E i, j \in 1..Len(events) :
                i < j /\ Called("store", id, i) /\ Called("mark", id, j)
    /\ \A j \in 1..Len(events) :
          events[j].op = "mark" =>
             \E i \in 1..(j - 1) : Called("store", events[j].id, i)
    /\ \A i \in 1..Len(events) :
          events[i].op = "store_failed" =>
             /\ ~Fingerprinted(events[i].id)
             /\ \A j \in 1..Len(events) : ~Called("mark", events[i].id, j)

\* the store failed for the second track after the first was stored and marked
C9_Witness ==
    /\ bpc = "aborted"
    /\ \E id \in 1..Len(music), k \in 1..Len(events) :
          /\ Called("store_failed", id, k)
          /\ ~music[id].fingerprinted
          /\ \E other \in 1..Len(music) : other # id /\ music[other].fingerprinted

StoreCallFailed ==
    \E k \in 1..Len(events) :
       events[k].op \in {"schema_failed", "insert_failed", "lookup_failed",
                         "store_failed", "mark_failed"}

\* an MP3 file that decodes to an audio the spectrogram accepts
Healthy(name) ==
    /\ mp3_dir[name].decodes
    /\ generate_spectrogram_from_wav(<<splitext(name), ".wav">>, mp3_dir[name].audio) = "grid"

SoleTitle(name) ==
    \A other \in DOMAIN mp3_dir : splitext(other) = splitext(name) => other = name

\* every WAV file is the decoding of a source track
WavsFromSources ==
    \A w \in DOMAIN wav_dir :
       \E name \in DOMAIN mp3_dir :
          /\ mp3_dir[name].decodes
          /\ w = <<splitext(name), ".wav">>
          /\ wav_dir[w] = mp3_dir[name].audio

Calls(op, id) == {k \in 1..Len(events) : events[k] = Event(op, id)}

\* the tracks a call has committed something for
EventIds ==
    {events[k].id : k \in {n \in 1..Len(events) : events[n].op \in {"insert", "store", "mark"}}}

\* C11: on the tables of a build each track is inserted once, gets its
\* hashes in at most one store_fingerprint_hashes call and is marked at most
\* once, and these calls come in the order insert, store, mark.
C11_Lifecycle ==
    \A id \in EventIds :
       /\ Cardinality(Calls("insert", id)) = 1
       /\ Cardinality(Calls("store", id)) <= 1
       /\ Cardinality(Calls("mark", id)) <= 1
       /\ \A s \in Calls("store", id) : \E i \in Calls("insert", id) : i < s
       /\ \A m \in Calls("mark", id) : \E s \in Calls("store", id) : s < m

\* a finished build that took two tracks through all three steps
C11_Witness ==
    /\ bpc = "done"
    /\ \E a, b \in EventIds :
          /\ a # b
          /\ \A id \in {a, b} :
                Calls("insert", id) # {} /\ Calls("store", id) # {} /\ Calls("mark", id) # {}

\* the song_id phase 1 gives an MP3 file: its place in the listing
TrackOf(name) ==
    LET listing == _iter_files(mp3_dir, ".mp3")
    IN  CHOOSE k \in 1..Len(listing) : listing[k] = name

\* C12: after a finished build a track whose MP3 conversion failed has no
\* hash entry under its song_id and is not marked fingerprinted, whatever
\* the WAV directory held before the build.
C12_UndecodedSkipped ==
    bpc = "done" =>
       \A name \in DOMAIN mp3_dir :
          ~mp3_dir[name].decodes =>
             /\ TrackEntries(fingerprint, TrackOf(name)) = <<>>
             /\ ~music[TrackOf(name)].fingerprinted

(***************************************************************************)
(* SASP_audio_processing.py on grids: a cell is a magnitude (a natural     *)
(* number) or NaN, a column lists the cells of one time frame by frequency *)
(* index, a grid lists the columns.                                        *)
(***************************************************************************)
NaN == 0 - 2

\* < on floats: false as soon as one side is NaN
MagLess(a, b) == a # NaN /\ b # NaN /\ a < b

\* the order np.argpartition ranks by: NaN after every number
RankLess(a, b) == a # NaN /\ (b = NaN \/ a < b)

\* np.any(column): a NaN counts as set
np_any(column) == \E i \in 1..Len(column) : column[i] # 0

\* np.max(column): NaN as soon as a cell is NaN
np_max(column) ==
    IF \E i \in 1..Len(column) : column[i] = NaN THEN NaN
    ELSE CHOOSE v \in {column[i] : i \in 1..Len(column)} :
            \A i \in 1..Len(column) : column[i] <= v

\* lines 291-298: the columns the peak search passes over
ColumnSkipped(column) ==
    \/ ~np_any(column)
    \/ np_max(column) # NaN /\ np_max(column) <= 0

\* a variant that takes one row more
limited_peaks_more(max_peaks, column) ==
    IF max_peaks + 1 < Len(column) THEN max_peaks + 1 ELSE Len(column)

\* line 302
limited_peaks(max_peaks, column) ==
    IF max_peaks < Len(column) THEN max_peaks ELSE Len(column)

\* line 303: np.argpartition(column, -k)[-k:] is some k rows none of which
\* ranks below a row left out; which rows on a tie, and in which order, is
\* up to numpy
TopRows(column, k) ==
    { rows \in SUBSET (1..Len(column)) :
        /\ Cardinality(rows) = k
        /\ \A i \in rows, j \in (1..Len(column)) \ rows : ~RankLess(column[i], column[j]) }

ArgOrders == {"ascending", "descending", "rotated"}

RECURSIVE Ascending(_)
Ascending(rows) ==
    IF rows = {} THEN <<>>
    ELSE LET least == CHOOSE i \in rows : \A j \in rows : i <= j
         IN  <<least>> \o Ascending(rows \ {least})

Arrange(rows, order) ==
    LET up == Ascending(rows)
        n  == Len(up)
    IN  CASE order = "ascending"  -> up
          [] order = "descending" -> [i \in 1..n |-> up[n + 1 - i]]
          [] order = "rotated"    -> [i \in 1..n |-> up[(i % n) + 1]]

\* lines 303-313 for one column: freq_idx is the row number less one
ColumnPeaks(column, time_idx, rows, order) ==
    LET peak_indices == Arrange(rows, order)
        column_max   == np_max(column)
        kept == SelectSeq(peak_indices,
                          LAMBDA i : ~MagLess(IF column[i] = NaN THEN NaN ELSE 4 * column[i],
                                              column_max))
    IN  [k \in 1..Len(kept) |-> <<time_idx, kept[k] - 1, column[kept[k]]>>]

RECURSIVE PicksFrom(_, _, _)
\* what argpartition may return for the columns t, t + 1, ... that are searched
PicksFrom(grid, max_peaks, t) ==
    IF t > Len(grid) THEN {<<>>}
    ELSE IF ColumnSkipped(grid[t]) THEN PicksFrom(grid, max_peaks, t + 1)
    ELSE { (t :> choice) @@ rest :
             choice \in TopRows(grid[t], limited_peaks(max_peaks, grid[t])) \X ArgOrders,
             rest \in PicksFrom(grid, max_peaks, t + 1) }

Picks(grid, max_peaks) == PicksFrom(grid, max_peaks, 1)

RECURSIVE PeaksFrom(_, _, _)
\* lines 286-313: the loop over time_idx
PeaksFrom(grid, pick, t) ==
    IF t > Len(grid) THEN <<>>
    ELSE (IF t \in DOMAIN pick
          THEN ColumnPeaks(grid[t], t - 1, pick[t][1], pick[t][2])
          ELSE <<>>) \o PeaksFrom(grid, pick, t + 1)

\* line 314: list.sort(key = time_idx), a stable sort
SortByTime(ps) ==
    LET place(i) == Cardinality({j \in 1..Len(ps) : ps[j][1] < ps[i][1]})
                      + Cardinality({j \in 1..(i - 1) : ps[j][1] = ps[i][1]}) + 1
    IN  [k \in 1..Len(ps) |-> ps[CHOOSE i \in 1..Len(ps) : place(i) = k]]

\* lines 263-315 on a grid, given what argpartition returned
PeakConstellation(grid, pick) == SortByTime(PeaksFrom(grid, pick, 1))

(***************************************************************************)
(* The audio pipeline on one signal.  A signal is [samples, loud,          *)
(* spectrum]: its length, whether any sample is non-zero, and the grid its *)
(* frames transform to.                                                    *)
(***************************************************************************)
\* the number of frequency rows of a modelled grid (window_size // 2 in the
\* code): one more than the peak search keeps, so that it has to choose
FreqRows == MAX_PEAKS_PER_COLUMN + 1

\* the longest grid whose columns are all drawn freely
MaxColumns == 2

Pad(cells) == [i \in 1..FreqRows |-> IF i <= Len(cells) THEN cells[i] ELSE 0]

ZeroColumn == Pad(<<>>)

LoneColumn == Pad(<<0, 0, 8>>)

FlatColumn == [i \in 1..FreqRows |-> 4]

SteepColumn == Pad(<<8, 7, 6, 5, 4, 3>>)

MixedColumn == Pad(<<8, 1, 2>>)

NaNColumn == [i \in 1..FreqRows |-> NaN]

ColumnKinds == {ZeroColumn, LoneColumn, FlatColumn, SteepColumn, MixedColumn}

\* two sounding frames with n silent frames between them
GapGrid(n) == <<SteepColumn>> \o [i \in 1..n |-> ZeroColumn] \o <<SteepColumn, MixedColumn>>

Grids ==
    UNION { [1..n -> ColumnKinds] : n \in 0..MaxColumns }
      \cup { GapGrid(MAX_TIME_DELTA - 1), GapGrid(MAX_TIME_DELTA) }

Signal(samples, loud, spectrum) ==
    [samples |-> samples, loud |-> loud, spectrum |-> spectrum]

Signals ==
    { Signal(WINDOW_SIZE + Len(g) * HOP_SIZE, TRUE, g) : g \in Grids }
      \cup { Signal(WINDOW_SIZE + HOP_SIZE - 1, loud, <<>>) : loud \in BOOLEAN }
      \cup { Signal(WINDOW_SIZE + n * HOP_SIZE, FALSE, <<>>) : n \in 0..MaxColumns }
      \cup { Signal(n, loud, <<>>) : n \in {1, HOP_SIZE, WINDOW_SIZE - 1}, loud \in BOOLEAN }
      \cup { Signal(0, FALSE, <<>>) }

\* lines 64-133: the grid of a signal that got through lines 91 and 109; a
\* silent signal is divided by its zero maximum and every cell is NaN
SpectrogramOf(signal) ==
    IF signal.loud THEN signal.spectrum
    ELSE [t \in 1..n_windows(signal.samples) |-> NaNColumn]

\* generate_spectrogram_from_array, lines 170-185 with 64-133: np.max raises
\* on a signal without samples (line 91), np.zeros on a negative number of
\* frames (line 109)
ComputeSpectrogram ==
    /\ epc = "signal"
    /\ IF audio_data.samples = 0 \/ n_windows(audio_data.samples) < 0
       THEN /\ epc' = "raised"
            /\ UNCHANGED power_matrix
       ELSE /\ epc' = "grid"
            /\ power_matrix' = SpectrogramOf(audio_data)
    /\ UNCHANGED <<appVars, dbVars, matchVars, buildVars, audio_data, peak_list, hashes,
                   unique_hashes>>

\* lines 318-394: generate_constellation_hashes on the grid
GenerateHashes ==
    /\ epc = "grid"
    /\ \E pick \in Picks(power_matrix, MAX_PEAKS_PER_COLUMN) :
          LET found   == PeakConstellation(power_matrix, pick)
              emitted == HashesFrom(found, 1)
          IN  /\ peak_list' = found
              /\ hashes' = emitted
              /\ unique_hashes' = Dedup(emitted)
    /\ epc' = "hashes"
    /\ UNCHANGED <<appVars, dbVars, matchVars, buildVars, audio_data, power_matrix>>

InitEngine ==
    /\ AppIdle
    /\ audio_data \in Signals
    /\ epc = "signal"
    /\ power_matrix = <<>>
    /\ peak_list = <<>>
    /\ hashes = <<>>
    /\ unique_hashes = <<>>
    /\ music = <<>>
    /\ fingerprint = <<>>
    /\ events = <<>>
    /\ mp3_dir = <<>>
    /\ wav_dir = <<>>
    /\ bpc = "idle"
    /\ todo = <<>>
    /\ title_to_id = <<>>
    /\ wav_track_id = None
    /\ fingerprint_hashes = <<>>
    /\ snippet_hashes = <<>>
    /\ mpc = "idle"
    /\ max_track_id = None
    /\ song_id = 1
    /\ offset_votes = <<>>
    /\ score_details = <<>>
    /\ best_song_ids = <<>>
    /\ matches = <<>>
    /\ db_reads = 0
    /\ run = 1
    /\ first_matches = <<>>

NextEngine == ComputeSpectrogram \/ GenerateHashes

EngineSpec == InitEngine /\ [][NextEngine]_vars

(***************************************************************************)
(* What the audio pipeline is specified to do.                             *)
(***************************************************************************)
\* C13: a signal whose largest absolute sample is zero is refused: the
\* engine raises, and no grid, no peaks and no hashes come out of it.
C13_SilenceRefused ==
    ~audio_data.loud =>
       /\ epc \in {"signal", "raised"}
       /\ power_matrix = <<>>
       /\ peak_list = <<>>
       /\ unique_hashes = <<>>

\* C14: a signal of fewer than one frame is refused, whatever its length,
\* and no grid without columns is ever returned.
C14_TooShortRefused ==
    /\ n_windows(audio_data.samples) < 1 => epc \in {"signal", "raised"}
    /\ epc \in {"grid", "hashes"} => Len(power_matrix) >= 1

\* C15: every returned hash entry has a time delta in 1 .. MAX_TIME_DELTA
\* and both frequency indices within the rows of the grid.
C15_HashRanges ==
    \A k \in 1..Len(unique_hashes) :
       /\ unique_hashes[k][1][3] \in 1..MAX_TIME_DELTA
       /\ unique_hashes[k][1][1] \in 0..(FreqRows - 1)
       /\ unique_hashes[k][1][2] \in 0..(FreqRows - 1)

\* hashes of a grid whose first two sounding frames lie MAX_TIME_DELTA + 1 apart
C15_Witness ==
    /\ epc = "hashes"
    /\ Len(power_matrix) = MAX_TIME_DELTA + 3
    /\ \E a, b \in 1..Len(peak_list) :
          peak_list[a][1] = 0 /\ peak_list[b][1] = MAX_TIME_DELTA + 1
    /\ Len(unique_hashes) > 0

\* the place of the first occurrence of entry e in the emitted stream
FirstPlace(e) == CHOOSE i \in 1..Len(hashes) : hashes[i] = e /\ \A j \in 1..(i - 1) : hashes[j] # e

\* C16: the returned list has no entry twice, holds exactly the entries of
\* the emitted stream in the order of their first occurrences, and removing
\* repeats from it again changes nothing.
C16_FirstOccurrences ==
    epc = "hashes" =>
       /\ \A i, j \in 1..Len(unique_hashes) : i # j => unique_hashes[i] # unique_hashes[j]
       /\ {unique_hashes[i] : i \in 1..Len(unique_hashes)} = {hashes[i] : i \in 1..Len(hashes)}
       /\ \A i, j \in 1..Len(unique_hashes) :
             i < j => FirstPlace(unique_hashes[i]) < FirstPlace(unique_hashes[j])
       /\ Dedup(unique_hashes) = unique_hashes

\* a stream of more than FAN_VALUE entries, two of them at one anchor time
C16_Witness ==
    /\ epc = "hashes"
    /\ Len(hashes) > FAN_VALUE
    /\ Len(unique_hashes) = Len(hashes)
    /\ \E i, j \in 1..Len(unique_hashes) :
          i # j /\ unique_hashes[i][2] = unique_hashes[j][2]

\* C17: the returned hash entries are in non-decreasing order of anchor time.
C17_AnchorsAscend ==
    \A i, j \in 1..Len(unique_hashes) : i < j => unique_hashes[i][2] <= unique_hashes[j][2]

C17_Witness ==
    /\ epc = "hashes"
    /\ \E i, j \in 1..Len(unique_hashes) : unique_hashes[i][2] < unique_hashes[j][2]
    /\ \E i, j \in 1..Len(unique_hashes) : i # j /\ unique_hashes[i][2] = unique_hashes[j][2]

\* the column a peak was found in
ColumnOf(peak) == power_matrix[peak[1] + 1]

\* C18: every peak has a magnitude of at least a quarter of the maximum of
\* its column, and that maximum is above zero.
C18_PeaksAboveQuarter ==
    \A k \in 1..Len(peak_list) :
       LET magnitude  == peak_list[k][3]
           column_max == np_max(ColumnOf(peak_list[k]))
       IN  /\ magnitude # NaN
           /\ column_max # NaN
           /\ 4 * magnitude >= column_max
           /\ column_max > 0

\* C19: a column yields at most MAX_PEAKS_PER_COLUMN peaks, at distinct
\* frequency indices, each the cell of its row and with fewer than
\* MAX_PEAKS_PER_COLUMN cells of the column above it, and the peak list is
\* in ascending order of time.
C19_TopPeaksPerColumn ==
    /\ \A t \in 0..(Len(power_matrix) - 1) :
          Cardinality({k \in 1..Len(peak_list) : peak_list[k][1] = t}) <= MAX_PEAKS_PER_COLUMN
    /\ \A i, j \in 1..Len(peak_list) :
          /\ i # j /\ peak_list[i][1] = peak_list[j][1] => peak_list[i][2] # peak_list[j][2]
          /\ i < j => peak_list[i][1] <= peak_list[j][1]
    /\ \A k \in 1..Len(peak_list) :
          LET column == ColumnOf(peak_list[k])
          IN  /\ peak_list[k][2] + 1 \in 1..Len(column)
              /\ peak_list[k][3] = column[peak_list[k][2] + 1]
              /\ Cardinality({r \in 1..Len(column) : MagLess(peak_list[k][3], column[r])})
                    < MAX_PEAKS_PER_COLUMN

\* a column with more cells above the quarter than the search keeps
C19_Witness ==
    /\ epc = "hashes"
    /\ \E t \in 1..Len(power_matrix) :
          /\ Cardinality({k \in 1..Len(peak_list) : peak_list[k][1] = t - 1})
                = MAX_PEAKS_PER_COLUMN
          /\ \A r \in 1..FreqRows :
                power_matrix[t][r] # NaN /\ 4 * power_matrix[t][r] >= np_max(power_matrix[t])
          /\ \E r, q \in 1..FreqRows : power_matrix[t][r] < power_matrix[t][q]

\* what the tables held before the build
OldTitles ==
    UNION {{store.music[i].title : i \in 1..Len(store.music)} : store \in OldStores}

OldSignatures ==
    UNION {{store.fingerprint[i].signature : i \in 1..Len(store.fingerprint)} :
             store \in OldStores}

\* C20: once initialize_schema has returned, and so after every build, the
\* store holds no track and no hash entry that was there before the build.
C20_CatalogReset ==
    (\E k \in 1..Len(events) : events[k].op = "reset") =>
       /\ \A id \in 1..Len(music) : music[id].title \notin OldTitles
       /\ \A i \in 1..Len(fingerprint) : fingerprint[i].signature \notin OldSignatures

\* a finished build that dropped a track and stored new ones
C20_Witness ==
    /\ bpc = "done"
    /\ \E k \in 1..Len(events) : events[k].op = "reset" /\ events[k].id > 0
    /\ Len(music) > 0
    /\ Len(fingerprint) > 0

(***************************************************************************)
(* database.py called directly: a client that inserts tracks, stores hash  *)
(* lists, looks titles up and fetches signatures, in any order.            *)
(***************************************************************************)
\* identify_from_hashes not running
MatcherIdle ==
    /\ snippet_hashes = <<>>
    /\ mpc = "idle"
    /\ max_track_id = None
    /\ song_id = 1
    /\ offset_votes = <<>>
    /\ score_details = <<>>
    /\ best_song_ids = <<>>
    /\ matches = <<>>
    /\ db_reads = 0
    /\ run = 1
    /\ first_matches = <<>>

\* construct_music_database not running
BuildIdle ==
    /\ mp3_dir = <<>>
    /\ wav_dir = <<>>
    /\ bpc = "idle"
    /\ todo = <<>>
    /\ title_to_id = <<>>
    /\ wav_track_id = None
    /\ fingerprint_hashes = <<>>
    /\ events = <<>>

MaxRecords == 2

MaxStores == 2

\* the titles a client inserts; one of them holds a dot
Titles == {"a", "b", "a.b"}

\* the strings a client looks up: titles, and file names of titles
LookupArgs == Titles \cup {"a.wav", "a.b.wav", "c"}

\* os.path.splitext: the string is cut at its last dot
os_path_splitext(s) ==
    CASE s = "a"       -> <<"a", "">>
      [] s = "b"       -> <<"b", "">>
      [] s = "c"       -> <<"c", "">>
      [] s = "a.b"     -> <<"a", ".b">>
      [] s = "a.wav"   -> <<"a", ".wav">>
      [] s = "a.b.wav" -> <<"a.b", ".wav">>

\* the hash_entries lists a client stores: with and without repeated entries
Batches ==
    { <<>>,
      << <<HashA, 0>> >>,
      << <<HashA, 0>>, <<HashA, 0>> >>,
      << <<HashB, 1>>, <<HashA, 0>>, <<HashB, 1>>, <<HashA, 1>> >> }

\* the lists stored so far, over all tracks
StoreCalls ==
    Cardinality({c \in (DOMAIN batches) \X (1..MaxStores) : c[2] <= Len(batches[c[1]])})

\* insert_track_metadata(title): the new row's song_id is returned
InsertTrack ==
    /\ Len(music) < MaxRecords
    /\ \E title \in Titles :
          /\ music' = insert_track_metadata(music, title)
          /\ last_call' = [op |-> "insert", arg |-> title, result |-> Len(music) + 1]
    /\ batches' = Append(batches, <<>>)
    /\ UNCHANGED <<fingerprint, matchVars, buildVars, engineVars, cliVars,
                   cancel_requested, guiVars>>

\* store_fingerprint_hashes(track_id, hash_entries): song_id REFERENCES music,
\* so the INSERT raises for a track_id that music does not hold, and an empty
\* list inserts nothing whatever the track_id
StoreEntries ==
    /\ StoreCalls < MaxStores
    /\ \E track_id \in 1..(Len(music) + 1), hash_entries \in Batches :
          IF track_id \in 1..Len(music) \/ hash_entries = <<>>
          THEN /\ fingerprint' = store_fingerprint_hashes(fingerprint, track_id, hash_entries)
               /\ batches' = IF track_id \in 1..Len(music)
                             THEN [batches EXCEPT ![track_id] = Append(@, hash_entries)]
                             ELSE batches
               /\ last_call' = [op |-> "store", arg |-> track_id, raised |-> FALSE]
          ELSE /\ last_call' = [op |-> "store", arg |-> track_id, raised |-> TRUE]
               /\ UNCHANGED <<fingerprint, batches>>
    /\ UNCHANGED <<music, matchVars, buildVars, engineVars, cliVars,
                   cancel_requested, guiVars>>

\* lookup_track_id_by_filename(file_name): result_rows[0][0], IndexError on
\* an empty result; the SELECT has no ORDER BY
LookupTrack ==
    /\ \E file_name \in LookupArgs :
          LET ids == lookup_track_id_by_filename(music, os_path_splitext(file_name))
          IN  IF ids = {}
              THEN last_call' = [op |-> "lookup", arg |-> file_name, raised |-> TRUE,
                                 result |-> None]
              ELSE \E id \in ids :
                      last_call' = [op |-> "lookup", arg |-> file_name, raised |-> FALSE,
                                    result |-> id]
    /\ UNCHANGED <<dbVars, batches, matchVars, buildVars, engineVars, cliVars,
                   cancel_requested, guiVars>>

\* fetch_track_signatures(track_id)
FetchSignatures ==
    /\ \E track_id \in 1..(Len(music) + 1), order \in FetchOrders :
          last_call' = [op |-> "fetch", arg |-> track_id,
                        result |-> fetch_track_signatures(fingerprint, track_id, order)]
    /\ UNCHANGED <<dbVars, batches, matchVars, buildVars, engineVars, cliVars,
                   cancel_requested, guiVars>>

InitStore ==
    /\ GuiIdle
    /\ cancel_requested = FALSE
    /\ music = <<>>
    /\ fingerprint = <<>>
    /\ StoreIdle
    /\ CliIdle
    /\ MatcherIdle
    /\ BuildIdle
    /\ EngineIdle

NextStore == InsertTrack \/ StoreEntries \/ LookupTrack \/ FetchSignatures

StoreSpec == InitStore /\ [][NextStore]_vars

(***************************************************************************)
(* cli.py: run_cli.  The calls it dispatches to end in one of the ways     *)
(* their code allows; what they do to the store is BuildSpec and MatchSpec.*)
(***************************************************************************)
\* the snippet paths given on the command line
SnippetPaths == {"snippet.wav", "snippet.mp3", "missing.wav"}

\* the command lines: none, the two commands with and without their
\* arguments, the help flag, and a command the parser does not know
Argvs ==
    {<<>>, <<"-h">>, <<"build">>, <<"build", "extra">>, <<"identify">>, <<"remove">>}
      \cup {<<"identify", path>> : path \in SnippetPaths}

MaxMatches == 2

\* the lists of titles find_matching_track can return
MatchLists ==
    UNION {{m \in [1..n -> {TitleSeq[i] : i \in 1..Len(TitleSeq)}] :
               \A i, j \in 1..n : i # j => m[i] # m[j]} : n \in 0..MaxMatches}

SystemExit(code) == [kind |-> "raised", error |-> "SystemExit", code |-> code]

ExitCode(code) == [kind |-> "returned", code |-> code]

\* lines 36-50, parser.parse_args(argv): argparse ends the call with
\* SystemExit(0) after -h and with SystemExit(2) on a command that is not a
\* subparser, a missing argument or an argument too many
parse_args(args) ==
    CASE args = <<>>                                  -> [exit |-> None, command |-> "None"]
      [] args = <<"-h">>                              -> [exit |-> 0, command |-> "None"]
      [] Len(args) = 1 /\ args[1] = "build"           -> [exit |-> None, command |-> "build"]
      [] Len(args) = 2 /\ args[1] = "identify"        -> [exit |-> None, command |-> "identify"]
      [] OTHER                                        -> [exit |-> 2, command |-> "None"]

\* lines 36-56
ParseArgs ==
    /\ cpc = "start"
    /\ LET args == parse_args(argv)
       IN  IF args.exit # None
           THEN /\ cli_exit' = SystemExit(args.exit)
                /\ cpc' = "done"
                /\ UNCHANGED command
           ELSE IF args.command = "None"
           THEN /\ cli_exit' = ExitCode(1)
                /\ cpc' = "done"
                /\ UNCHANGED command
           ELSE /\ command' = args.command
                /\ cpc' = "parsed"
                /\ UNCHANGED cli_exit
    /\ UNCHANGED <<argv, connection, outcome, dbVars, matchVars, buildVars, engineVars, storeVars,
                   cancel_requested, guiVars>>

\* line 60: get_db_connection returns a connection or raises psycopg2.Error
Connect ==
    /\ cpc = "parsed"
    /\ \/ /\ connection' = "open"
          /\ cpc' = "connected"
          /\ UNCHANGED cli_exit
       \/ /\ cli_exit' = [kind |-> "raised", error |-> "psycopg2.Error", code |-> 1]
          /\ cpc' = "done"
          /\ UNCHANGED connection
    /\ UNCHANGED <<argv, command, outcome, dbVars, matchVars, buildVars, engineVars, storeVars,
                   cancel_requested, guiVars>>

\* lines 62-86, the body of the try: the dispatched call completes or raises
RunCommand ==
    /\ cpc = "connected"
    /\ \/ /\ command = "build"
          /\ outcome' \in {[kind |-> "completed"], [kind |-> "raised"]}
       \/ /\ command = "identify"
          /\ outcome' \in {[kind |-> "raised"]} \cup
                          {[kind |-> "matches", matches |-> m] : m \in MatchLists}
    /\ cpc' = "ran"
    /\ UNCHANGED <<argv, command, connection, cli_exit, dbVars, matchVars, buildVars,
                   engineVars, storeVars, cancel_requested, guiVars>>

\* lines 66, 73-82 and 88-91: the return value or the exception of the body
\* leaves run_cli after the finally clause has closed the connection
Finally ==
    /\ cpc = "ran"
    /\ connection' = "closed"
    /\ cli_exit' =
          CASE outcome.kind = "raised"    -> [kind |-> "raised", error |-> "Exception", code |-> 1]
            [] outcome.kind = "completed" -> ExitCode(0)
            [] outcome.kind = "matches"   ->
                  IF outcome.matches # <<>> THEN ExitCode(0) ELSE ExitCode(1)
    /\ cpc' = "done"
    /\ UNCHANGED <<argv, command, outcome, dbVars, matchVars, buildVars, engineVars, storeVars,
                   cancel_requested, guiVars>>

InitCli ==
    /\ GuiIdle
    /\ cancel_requested = FALSE
    /\ argv \in Argvs
    /\ cpc = "start"
    /\ command = "None"
    /\ connection = "unopened"
    /\ outcome = [kind |-> "none"]
    /\ cli_exit = [kind |-> "none"]
    /\ music = <<>>
    /\ fingerprint = <<>>
    /\ StoreIdle
    /\ MatcherIdle
    /\ BuildIdle
    /\ EngineIdle

NextCli == ParseArgs \/ Connect \/ RunCommand \/ Finally

CliSpec == InitCli /\ [][NextCli]_vars

\* the members of a list
Members(entries) == {entries[i] : i \in 1..Len(entries)}

\* C21: when a track has had one store_fingerprint_hashes call, what
\* fetch_track_signatures returns for it holds every distinct
\* (hash, anchor time) pair of the stored list exactly once, as
\* (anchor time, hash), and nothing else.
C21_StoreThenFetch ==
    (/\ last_call.op = "fetch"
     /\ last_call.arg \in DOMAIN batches
     /\ Len(batches[last_call.arg]) = 1) =>
       LET entries == batches[last_call.arg][1]
           rows    == last_call.result
       IN  /\ \A e \in Members(entries) :
                 Cardinality({i \in 1..Len(rows) : rows[i] = <<e[2], e[1]>>}) = 1
           /\ \A i \in 1..Len(rows) : <<rows[i][2], rows[i][1]>> \in Members(entries)

\* a fetch of a track stored once from a list with repeats, while another
\* track holds entries too
C21_Witness ==
    /\ last_call.op = "fetch"
    /\ last_call.arg \in DOMAIN batches
    /\ Len(batches[last_call.arg]) = 1
    /\ Len(batches[last_call.arg][1]) > Cardinality(Members(batches[last_call.arg][1]))
    /\ Len(last_call.result) > 1
    /\ \E r \in Members(fingerprint) : r.song_id # last_call.arg

\* the song_ids whose stored title is t
TitleIds(t) == {id \in 1..Len(music) : music[id].title = t}

\* C22: looking up a title that was inserted returns a track holding that
\* title, and looking up a title that was never inserted raises IndexError.
C22_ExactLookup ==
    (last_call.op = "lookup" /\ last_call.arg \in Titles) =>
       IF TitleIds(last_call.arg) # {}
       THEN ~last_call.raised /\ last_call.result \in TitleIds(last_call.arg)
       ELSE last_call.raised

\* C23: run_cli returns 0 exactly when build completed or identify returned
\* a match; it returns 1 when identify found no match, when no command was
\* given and for a command it does not know; and it never ends with the
\* connection open.
C23_ExitCodes ==
    cpc = "done" =>
       /\ cli_exit = ExitCode(0) <=>
             \/ command = "build" /\ outcome.kind = "completed"
             \/ command = "identify" /\ outcome.kind = "matches" /\ outcome.matches # <<>>
       /\ (command = "identify" /\ outcome.kind = "matches" /\ outcome.matches = <<>>) =>
             cli_exit = ExitCode(1)
       /\ argv = <<>> => cli_exit = ExitCode(1)
       /\ (argv # <<>> /\ argv[1] \notin {"build", "identify", "-h"}) => cli_exit = ExitCode(1)
       /\ connection # "open"

(***************************************************************************)
(* GUI.py: the window, its two buttons and the _record_audio threads.  A   *)
(* disabled button takes no click.  A thread waits in its loop until       *)
(* is_recording is false or the recording time is over, then saves the     *)
(* recording and identifies it on the shared connection, then resets the   *)
(* window in its finally clause.                                           *)
(***************************************************************************)
MaxThreads == 3

\* the passes through the loop of lines 247-250 that make the full duration
MaxTicks == 2

Alive == {t \in 1..Len(thread_pc) : thread_pc[t] # "finished"}

\* lines 187-198
start_recording ==
    /\ is_recording' = TRUE
    /\ record_button' = "disabled"
    /\ stop_button' = "normal"
    /\ thread_pc' = Append(thread_pc, "recording")
    /\ ticks' = Append(ticks, 0)

\* lines 207-212
stop_recording ==
    /\ IF is_recording
       THEN /\ is_recording' = FALSE
            /\ stop_button' = "disabled"
            /\ record_button' = "normal"
       ELSE UNCHANGED <<is_recording, stop_button, record_button>>
    /\ UNCHANGED <<thread_pc, ticks>>

\* lines 170-178: a click on the record button, toggle_recording
ClickRecord ==
    /\ window = "open"
    /\ record_button = "normal"
    /\ Len(thread_pc) < MaxThreads
    /\ IF ~is_recording THEN start_recording ELSE stop_recording
    /\ UNCHANGED <<window, db_connection, dbVars, matchVars, buildVars, engineVars, storeVars,
                   cliVars, cancel_requested>>

\* lines 200-212: a click on the stop button
ClickStop ==
    /\ window = "open"
    /\ stop_button = "normal"
    /\ stop_recording
    /\ UNCHANGED <<window, db_connection, dbVars, matchVars, buildVars, engineVars, storeVars,
                   cliVars, cancel_requested>>

\* lines 247-262: one pass of the waiting loop; the thread leaves the loop
\* when is_recording is false or the time is over, and goes on to save and
\* identify
WaitOrLeave(t) ==
    /\ thread_pc[t] = "recording"
    /\ IF ~is_recording \/ ticks[t] = MaxTicks
       THEN /\ thread_pc' = [thread_pc EXCEPT ![t] = "identifying"]
            /\ UNCHANGED ticks
       ELSE /\ ticks' = [ticks EXCEPT ![t] = @ + 1]
            /\ UNCHANGED thread_pc
    /\ UNCHANGED <<is_recording, record_button, stop_button, window, db_connection, dbVars,
                   matchVars, buildVars, engineVars, storeVars, cliVars, cancel_requested>>

\* lines 266-282: find_matching_track returns or raises, and the result or
\* the error is shown
Identify(t) ==
    /\ thread_pc[t] = "identifying"
    /\ thread_pc' = [thread_pc EXCEPT ![t] = "finally"]
    /\ UNCHANGED <<is_recording, record_button, stop_button, ticks, window, db_connection,
                   dbVars, matchVars, buildVars, engineVars, storeVars, cliVars,
                   cancel_requested>>

\* lines 283-288
ThreadFinally(t) ==
    /\ thread_pc[t] = "finally"
    /\ is_recording' = FALSE
    /\ stop_button' = "disabled"
    /\ record_button' = "normal"
    /\ thread_pc' = [thread_pc EXCEPT ![t] = "finished"]
    /\ UNCHANGED <<ticks, window, db_connection, dbVars, matchVars, buildVars, engineVars,
                   storeVars, cliVars, cancel_requested>>

\* lines 290-310: join(timeout=1) waits for the latest thread one second at
\* most, so the thread may be alive still when the connection is closed
on_close ==
    /\ window = "open"
    /\ is_recording' = IF Len(thread_pc) > 0 /\ Len(thread_pc) \in Alive
                       THEN FALSE ELSE is_recording
    /\ db_connection' = "closed"
    /\ window' = "destroyed"
    /\ UNCHANGED <<record_button, stop_button, thread_pc, ticks, dbVars, matchVars, buildVars,
                   engineVars, storeVars, cliVars, cancel_requested>>

\* lines 39-70: the window after __init__
InitGui ==
    /\ is_recording = FALSE
    /\ record_button = "normal"
    /\ stop_button = "disabled"
    /\ thread_pc = <<>>
    /\ ticks = <<>>
    /\ window = "open"
    /\ db_connection = "open"
    /\ music = <<>>
    /\ fingerprint = <<>>
    /\ StoreIdle
    /\ CliIdle
    /\ cancel_requested = FALSE
    /\ MatcherIdle
    /\ BuildIdle
    /\ EngineIdle

NextGui ==
    \/ ClickRecord
    \/ ClickStop
    \/ on_close
    \/ \E t \in 1..Len(thread_pc) : WaitOrLeave(t) \/ Identify(t) \/ ThreadFinally(t)

GuiSpec == InitGui /\ [][NextGui]_vars

(***************************************************************************)
(* orchestrator.py under a caller that asks a running build or match to    *)
(* stop.  Neither construct_music_database (line 79) nor                   *)
(* identify_from_hashes (line 181) takes or reads such a request.          *)
(***************************************************************************)
BuildRunning == bpc \in {"schema", "phase1", "phase2", "store", "mark"}

MatchRunning == mpc \in {"start", "scan"}

\* the caller asks for the running call to stop
RequestCancel ==
    /\ BuildRunning \/ MatchRunning
    /\ ~cancel_requested
    /\ cancel_requested' = TRUE
    /\ UNCHANGED <<dbVars, matchVars, buildVars, engineVars, storeVars, cliVars, guiVars>>

InitCancel == InitBuild \/ InitMatch

NextCancel == NextBuild \/ NextMatch \/ RequestCancel

CancelSpec == InitCancel /\ [][NextCancel]_vars

\* C24: once a stop has been asked for, the builder does not start the track
\* after the one in hand, and the matcher does not scan the candidate after
\* the one in hand.
C24_CancelStops ==
    [][cancel_requested =>
          /\ ~(IngestMp3 /\ Len(music) > 0)
          /\ ~(ProcessWav /\ Len(todo) < Len(_iter_files(wav_dir, ".wav")))
          /\ ~(ScanTrack /\ song_id > 1)]_vars

\* C25: the histogram built for a track counts the pairs (stored entry,
\* query entry) of one hash per offset, a repeated query entry counting each
\* time; the track's votes are the histogram's maximum v*, or 0 when the
\* gate drops it; and the snippet ratio is v* over the number of query
\* entries.
C25_VotesCountPairs ==
    mpc \in {"scan", "done"} =>
       \A id \in 1..Len(score_details) :
          LET hist == Histogram(id)
              v    == VStarOf(hist)
          IN  /\ id = song_id - 1 =>
                    /\ DOMAIN offset_votes = DOMAIN hist
                    /\ \A d \in DOMAIN offset_votes : offset_votes[d] = hist[d]
              /\ score_details[id].votes = IF GateHolds(v, Ns(id)) THEN v ELSE 0
              /\ score_details[id].votes > 0 =>
                    score_details[id].ratio = FloatDiv(v, Nq)

\* a query with repeated entries wins more votes than it has distinct entries
C25_Witness ==
    /\ mpc = "done"
    /\ Nq > Cardinality({snippet_hashes[j] : j \in 1..Nq})
    /\ \E id \in 1..Len(score_details) :
          /\ score_details[id].votes > Cardinality({snippet_hashes[j] : j \in 1..Nq})
          /\ score_details[id].ratio = FloatDiv(VStar(id), Nq)
          /\ Nq > Cardinality(QueryHashes)

\* C26: after a build that ran to its end with every MP3 file decoded, every
\* track the build inserted has had its hashes stored and is marked
\* fingerprinted, two files of one title included.
C26_AllInsertedFingerprinted ==
    (bpc = "done" /\ \A name \in DOMAIN mp3_dir : mp3_dir[name].decodes) =>
       \A id \in 1..Len(music) :
          /\ Calls("insert", id) # {}
          /\ Calls("store", id) # {}
          /\ music[id].fingerprinted

\* C27: at most one _record_audio thread is alive at any time, so at most
\* one uses the shared connection, and no thread resets is_recording while
\* another is recording.
C27_OneRecorder ==
    /\ Cardinality(Alive) <= 1
    /\ Cardinality({t \in Alive : thread_pc[t] = "identifying"}) <= 1
    /\ \A t, u \in Alive : thread_pc[t] = "finally" /\ thread_pc[u] = "recording" => t = u

\* C28: no step of a match changes the store: the track records, their
\* fingerprinted flags and the stored hash entries stay as they were.
C28_StoreUnchanged == [][music' = music /\ fingerprint' = fingerprint]_vars

\* two calls have run to their end on a store with rows, one of them with
\* a match
C28_Witness ==
    /\ mpc = "done"
    /\ run = 2
    /\ db_reads > Len(music)
    /\ Len(fingerprint) > 0
    /\ \E id \in TrackIds : music[id].fingerprinted

\* 1.0
OneF == FloatDiv(1, 1)

DistinctQuery == Cardinality({snippet_hashes[j] : j \in 1..Nq}) = Nq

DistinctStored(id) == Cardinality(EntrySet(id)) = Ns(id)

\* C29: when the query entries are pairwise distinct and so are a track's
\* stored entries, no offset of the track's histogram has more votes than
\* the query or the track has entries, the track's votes, both its ratios
\* and its score are at most that and at most 1, and for the track's own
\* full hash list the histogram's maximum is the number of its entries.
C29_VotesBounded ==
    (mpc \in {"scan", "done"} /\ DistinctQuery) =>
       \A id \in 1..Len(score_details) :
          DistinctStored(id) =>
             /\ id = song_id - 1 =>
                   /\ \A d \in DOMAIN offset_votes :
                         offset_votes[d] <= Nq /\ offset_votes[d] <= Ns(id)
                   /\ SelfQuery(id) /\ Ns(id) > 0 =>
                         \E d \in DOMAIN offset_votes : offset_votes[d] = Ns(id)
             /\ score_details[id].votes <= Nq
             /\ score_details[id].votes <= Ns(id)
             /\ ~FloatLess(OneF, score_details[id].ratio)
             /\ ~FloatLess(OneF, score_details[id].stored_ratio)
             /\ ~FloatLess(OneF, score_details[id].score)

\* a part of a track matched against it: every query entry votes, the
\* snippet ratio is 1 and the stored ratio is below 1
C29_Witness ==
    /\ mpc = "done"
    /\ DistinctQuery
    /\ \E id \in 1..Len(score_details) :
          /\ DistinctStored(id)
          /\ score_details[id].votes = Nq
          /\ Nq < Ns(id)
          /\ score_details[id].ratio = OneF
          /\ FloatLess(score_details[id].stored_ratio, OneF)

\* C30: a second call whose query holds the same entries in another order,
\* the store returning its rows in whatever order, returns the list of
\* titles the first call returned.
C30_OrderFree ==
    (mpc = "done" /\ run = 2) =>
       /\ Len(matches) = Len(first_matches)
       /\ \A i \in 1..Len(matches) : matches[i] = first_matches[i]

\* a second call with the query turned round returned the two titles again
C30_Witness ==
    /\ mpc = "done"
    /\ run = 2
    /\ Nq > 1
    /\ snippet_hashes[1][2] > snippet_hashes[Nq][2]
    /\ Len(matches) = 2
    /\ matches = first_matches

====
